---- MODULE Spec2Model ----
(***************************************************************************)
(* Model of the syllabus-ingestion pipeline of HackUTA-2025.               *)
(*                                                                         *)
(*   - PDF text extraction with OCR fallback                               *)
(*       src/ai_ml/main.py  extract_text (identical copy in src/main.py)   *)
(*       src/ai_ml/text_extraction.py  extract_text_from_pdf               *)
(*   - normalisation of the model's reply into structured data             *)
(*       src/ai_ml/gemini_extractor.py, src/gemini_processor.py,           *)
(*       src/ai_ml/text_extraction.py, src/ai_ml/api.py                    *)
(*   - the upload handlers of src/ai_ml/api.py and their temporary files   *)
(*                                                                         *)
(* Text is a sequence of one-character strings.                            *)
(***************************************************************************)
EXTENDS Integers, Sequences, FiniteSets, TLC

VARIABLES
    \* ---- PDF text extraction ----
    ex_impl,      \* "main" (extract_text) or "te" (extract_text_from_pdf)
    pdf,          \* the input path and the document behind it
    ex_pc,        \* position inside the extractor
    page_num,     \* page the running loop is at
    text,         \* the local variable text
    text_parts,   \* the local variable text_parts
    ex_result,    \* returned string
    ex_raised,    \* exception that left the extractor ("" when none)
    ocrCalls,     \* pages handed to pytesseract.image_to_string, in call order
    fastDone,     \* the structured pass has yielded its text
    fastText,     \* what the structured pass yielded
    ocrDone,      \* the OCR pass has yielded its text
    ocrText,      \* what the OCR pass yielded
    \* ---- response normalisation ----
    nm_impl,        \* which copy of the normaliser runs
    reply,          \* response.text, the raw reply of the model
    inner,          \* the text that was wrapped to build the reply
    shape,          \* how the reply was built around inner
    nm_pc,          \* position inside the normaliser
    response_text,  \* the local variable response_text
    nm_result,      \* value handed back to the caller
    nm_error,       \* exception raised to the caller
    \* ---- upload handlers of api.py ----
    api_handler,    \* "extract", "extract_text_only" or "voice_summary"
    upload,         \* the uploaded file: its name and whether reading it fails
    env,            \* which API keys are configured
    proc,           \* how the processing of the saved file turns out
    api_pc,         \* position inside the handler
    temp_path,      \* the local variable temp_path
    files,          \* files that exist on disk
    api_status,     \* HTTP status of the response (0 while running)
    api_exc,        \* exception propagating out of the try block ("" when none)
    model_called,   \* the handler has sent the upload to the model
    store_written,  \* the handler has written to the document store
    \* ---- validate_extraction_data ----
    vd_data,        \* the argument data
    vd_pc,          \* "call", "returned" or "raised" ("idle" when not running)
    vd_result,      \* the boolean returned
    \* ---- estimate_study_schedule ----
    courses,             \* the argument courses
    ag_pc,               \* position inside estimate_study_schedule
    total_weekly_hours,  \* the local variable total_weekly_hours
    daily_schedule,      \* day -> entries; hours are kept in tenths
    weekly_schedule,     \* [total_hours, courses]
    deadlines,           \* the sorted list of deadline records
    \* ---- concurrent /voice-summary requests ----
    vs_pc,          \* request -> position inside generate_voice_summary
    vs_temp,        \* request -> its temp_path (0 while unset)
    summary_text,   \* request -> the summary made from its upload (0 while unset)
    audio_path,     \* request -> what generate_mp3_with_elevenlabs returned
    audio_data,     \* request -> the audio it read (0 while unset)
    vs_status,      \* request -> HTTP status of its response (0 while running)
    temp_files,     \* the temporary files on disk
    output_mp3,     \* content of output/macdonald_summary.mp3 (0 when absent)
    \* ---- process_syllabus_deep ----
    dp_pc,          \* position inside process_syllabus_deep
    dp_key,         \* an API key is passed or set in the environment
    dp_result,      \* the dict returned: its error text and what caused it
    gemini_called,  \* generate_content has been called with the text
    dp_validated,   \* main() has run validate_extraction_data on the result
    \* ---- prompt construction ----
    pb_impl,        \* which prompt builder runs
    pb_text,        \* the argument text
    pb_pc,          \* "build" or "built" ("idle" when not running)
    pb_embedded,    \* the source text embedded in the prompt
    \* ---- backend: upload, get_syllabus, calendar sync over Firestore ----
    be_db,          \* FALSE: syllabi_collection is None (Firebase did not initialise)
    be_store,       \* the syllabi collection, document id = position
    be_store0,      \* the collection when the current request arrived
    be_req,         \* the request being served
    be_pc,          \* position inside the handler
    be_resp,        \* the response sent
    be_n,           \* requests received so far
    \* ---- GET /auth/me over the users collection ----
    au_users,       \* the users collection, document id = position
    au_calls        \* per call: user, worker process, position, query result, status

exVars == <<ex_impl, pdf, ex_pc, page_num, text, text_parts, ex_result,
            ex_raised, ocrCalls, fastDone, fastText, ocrDone, ocrText>>

nmVars == <<nm_impl, reply, inner, shape, nm_pc, response_text, nm_result, nm_error>>

apiVars == <<api_handler, upload, env, proc, api_pc, temp_path, files, api_status,
             api_exc, model_called, store_written>>

vdVars == <<vd_data, vd_pc, vd_result>>

agVars == <<courses, ag_pc, total_weekly_hours, daily_schedule, weekly_schedule, deadlines>>

vsVars == <<vs_pc, vs_temp, summary_text, audio_path, audio_data, vs_status,
            temp_files, output_mp3>>

dpVars == <<dp_pc, dp_key, dp_result, gemini_called, dp_validated>>

pbVars == <<pb_impl, pb_text, pb_pc, pb_embedded>>

beVars == <<be_db, be_store, be_store0, be_req, be_pc, be_resp, be_n>>

auVars == <<au_users, au_calls>>

vars == <<exVars, nmVars, apiVars, vdVars, agVars, vsVars, dpVars,
          pbVars,
          beVars,
          auVars>>

\* what the actions of one component leave alone
exOthers == <<nmVars, apiVars, vdVars, agVars, vsVars, dpVars, pbVars, beVars,
    auVars>>
nmOthers == <<exVars, apiVars, vdVars, agVars, vsVars, dpVars, pbVars, beVars,
    auVars>>
apiOthers == <<exVars, nmVars, vdVars, agVars, vsVars, dpVars, pbVars, beVars,
    auVars>>
vdOthers == <<exVars, nmVars, apiVars, agVars, vsVars, dpVars, pbVars, beVars,
    auVars>>
agOthers == <<exVars, nmVars, apiVars, vdVars, vsVars, dpVars, pbVars, beVars,
    auVars>>
vsOthers == <<exVars, nmVars, apiVars, vdVars, agVars, dpVars, pbVars, beVars,
    auVars>>
dpOthers == <<nmVars, apiVars, vdVars, agVars, vsVars, pbVars, beVars, auVars>>
pbOthers == <<exVars, nmVars, apiVars, vdVars, agVars, vsVars, dpVars, beVars,
    auVars>>
beOthers == <<exVars, nmVars, apiVars, vdVars, agVars, vsVars, dpVars, pbVars,
    auVars>>
auOthers == <<exVars, nmVars, apiVars, vdVars, agVars, vsVars, dpVars, pbVars, beVars>>

(***************************************************************************)
(* A component that is not running                                         *)
(***************************************************************************)
ExIdle ==
    /\ ex_impl = "none"
    /\ pdf = [exists |-> FALSE, openFails |-> TRUE, rasterFails |-> TRUE,
              fast |-> <<>>, ocr |-> <<>>]
    /\ ex_pc = "idle"
    /\ page_num = 0
    /\ text = <<>>
    /\ text_parts = <<>>
    /\ ex_result = <<>>
    /\ ex_raised = ""
    /\ ocrCalls = <<>>
    /\ fastDone = FALSE
    /\ fastText = <<>>
    /\ ocrDone = FALSE
    /\ ocrText = <<>>

NoValue == [value |-> <<>>, metadata |-> FALSE, error |-> "", raw_response |-> <<>>]
NoError == [type |-> "", status |-> 0, reason |-> "", raw |-> <<>>]

NmIdle ==
    /\ nm_impl = "none"
    /\ reply = <<>>
    /\ inner = <<>>
    /\ shape = "none"
    /\ nm_pc = "idle"
    /\ response_text = <<>>
    /\ nm_result = NoValue
    /\ nm_error = NoError

ApiIdle ==
    /\ api_handler = "none"
    /\ upload = [is_pdf |-> FALSE, empty |-> FALSE, read_fails |-> FALSE,
                 write_fails |-> FALSE]
    /\ env = [gemini |-> FALSE, elevenlabs |-> FALSE]
    /\ proc = "none"
    /\ api_pc = "idle"
    /\ temp_path = "unbound"
    /\ files = {}
    /\ api_status = 0
    /\ api_exc = ""
    /\ model_called = FALSE
    /\ store_written = FALSE

VdIdle ==
    /\ vd_data = "none"
    /\ vd_pc = "idle"
    /\ vd_result = FALSE

AgIdle ==
    /\ courses = <<>>
    /\ ag_pc = "idle"
    /\ total_weekly_hours = 0
    /\ daily_schedule = <<>>
    /\ weekly_schedule = <<>>
    /\ deadlines = <<>>

VsIdle ==
    /\ vs_pc = <<>>
    /\ vs_temp = <<>>
    /\ summary_text = <<>>
    /\ audio_path = <<>>
    /\ audio_data = <<>>
    /\ vs_status = <<>>
    /\ temp_files = {}
    /\ output_mp3 = 0

DpIdle ==
    /\ dp_pc = "idle"
    /\ dp_key = FALSE
    /\ dp_result = [error |-> "", cause |-> ""]
    /\ gemini_called = FALSE
    /\ dp_validated = FALSE

PbIdle ==
    /\ pb_impl = "none"
    /\ pb_text = <<>>
    /\ pb_pc = "idle"
    /\ pb_embedded = <<>>

BeIdle ==
    /\ be_db = FALSE
    /\ be_store = <<>>
    /\ be_store0 = <<>>
    /\ be_req = [handler |-> "none"]
    /\ be_pc = "idle"
    /\ be_resp = [status |-> 0, detail |-> "", data |-> <<>>]
    /\ be_n = 0

AuIdle ==
    /\ au_users = <<>>
    /\ au_calls = <<>>

\* every component outside the set cs is not running
IdleExcept(cs) ==
    /\ IF "ex" \in cs THEN TRUE ELSE ExIdle
    /\ IF "nm" \in cs THEN TRUE ELSE NmIdle
    /\ IF "api" \in cs THEN TRUE ELSE ApiIdle
    /\ IF "vd" \in cs THEN TRUE ELSE VdIdle
    /\ IF "ag" \in cs THEN TRUE ELSE AgIdle
    /\ IF "vs" \in cs THEN TRUE ELSE VsIdle
    /\ IF "dp" \in cs THEN TRUE ELSE DpIdle
    /\ IF "pb" \in cs THEN TRUE ELSE PbIdle
    /\ IF "be" \in cs THEN TRUE ELSE BeIdle
    /\ IF "au" \in cs THEN TRUE ELSE AuIdle

(***************************************************************************)
(* Bounds and program constants                                            *)
(***************************************************************************)
MaxPages == 2          \* pages of a document
MaxPad == 1            \* whitespace characters around a page's text
MinChars == 50         \* the quality threshold of both passes
MinAnalysisChars == 10 \* the shortest text extract_syllabus_info accepts
MaxCourses == 2        \* courses handed to estimate_study_schedule
MaxRequests == 2       \* /voice-summary requests in progress at once

ShortLen == (MinChars - 2) \div 2   \* two such pages joined stay below MinChars

(***************************************************************************)
(* Strings                                                                 *)
(***************************************************************************)
Rep(c, n) == [k \in 1..n |-> c]

\* characters str.strip() removes (a subset: space, newline, tab, CR, FF)
IsSpace(c) == c \in {" ", "\n", "\t", "\r", "\f"}

RECURSIVE LSkip(_, _)
LSkip(s, i) == IF i > Len(s) \/ ~IsSpace(s[i]) THEN i ELSE LSkip(s, i + 1)

RECURSIVE RSkip(_, _)
RSkip(s, j) == IF j < 1 \/ ~IsSpace(s[j]) THEN j ELSE RSkip(s, j - 1)

\* str.strip()
Strip(s) ==
    LET a == LSkip(s, 1)
        b == RSkip(s, Len(s))
    IN  IF a > b THEN <<>> ELSE SubSeq(s, a, b)

\* "\n".join(parts)
RECURSIVE JoinNl(_)
JoinNl(parts) ==
    IF parts = <<>> THEN <<>>
    ELSE IF Len(parts) = 1 THEN parts[1]
    ELSE parts[1] \o <<"\n">> \o JoinNl(Tail(parts))

(***************************************************************************)
(* Documents.  A page has one outcome per pass: the call raises, or it    *)
(* returns a text (the empty text also stands for None).                   *)
(***************************************************************************)
FastChar == <<"a", "b", "c", "d">>
OcrChar == <<"w", "x", "y", "z">>

Outcome(r, t) == [raises |-> r, txt |-> t]

PageOutcomes(ch) ==
    { Outcome(TRUE, <<>>),
      Outcome(FALSE, <<>>),
      Outcome(FALSE, Rep(ch, ShortLen)),
      Outcome(FALSE, Rep(" ", MaxPad) \o Rep(ch, MinChars) \o Rep(" ", MaxPad)) }

\* what OCR returns for a blank page is whitespace, not the empty string
OcrOutcomes(ch) ==
    { IF o.txt = <<>> /\ ~o.raises THEN Outcome(FALSE, Rep("\n", MaxPad)) ELSE o
      : o \in PageOutcomes(ch) }

Docs(n) ==
    { [exists |-> TRUE, openFails |-> of, rasterFails |-> rf, fast |-> f, ocr |-> o] :
        of \in BOOLEAN, rf \in BOOLEAN,
        f \in { g \in [1..n -> UNION { PageOutcomes(FastChar[p]) : p \in 1..n }] :
                  \A p \in 1..n : g[p] \in PageOutcomes(FastChar[p]) },
        o \in { g \in [1..n -> UNION { OcrOutcomes(OcrChar[p]) : p \in 1..n }] :
                  \A p \in 1..n : g[p] \in OcrOutcomes(OcrChar[p]) } }

MissingDoc ==
    [exists |-> FALSE, openFails |-> TRUE, rasterFails |-> TRUE,
     fast |-> <<>>, ocr |-> <<>>]

NumPages == Len(pdf.fast)

(***************************************************************************)
(* extract_text  (src/ai_ml/main.py; src/main.py holds the same code)      *)
(***************************************************************************)
ExStart ==
    /\ ex_impl \in {"main", "te"}
    /\ pdf \in {MissingDoc} \cup UNION { Docs(n) : n \in 0..MaxPages }
    /\ ex_pc = "start"
    /\ page_num = 0
    /\ text = <<>>
    /\ text_parts = <<>>
    /\ ex_result = <<>>
    /\ ex_raised = ""
    /\ ocrCalls = <<>>
    /\ fastDone = FALSE
    /\ fastText = <<>>
    /\ ocrDone = FALSE
    /\ ocrText = <<>>

ExInit ==
    /\ ExStart
    /\ IdleExcept({"ex"})

\* the threshold test with the comparison made strict
MeetsThreshold_Strict(t) == t # <<>> /\ Len(Strip(t)) > MinChars

\* if text and len(text.strip()) >= 50
MeetsThreshold(t) == t # <<>> /\ Len(Strip(t)) >= MinChars

\* os.path.exists check, then pdfplumber.open inside _extract_with_pdfplumber
M_Start ==
    /\ ex_impl = "main" /\ ex_pc = "start"
    /\ IF ~pdf.exists
       THEN /\ ex_pc' = "raised"
            /\ ex_raised' = "FileNotFoundError"
            /\ UNCHANGED <<page_num, text, text_parts, fastDone, fastText>>
       ELSE IF pdf.openFails
       THEN \* except Exception: return ""
            /\ ex_pc' = "check"
            /\ text' = <<>>
            /\ fastDone' = TRUE
            /\ fastText' = <<>>
            /\ UNCHANGED <<page_num, text_parts, ex_raised>>
       ELSE /\ ex_pc' = "fast"
            /\ page_num' = 1
            /\ text_parts' = <<>>
            /\ UNCHANGED <<text, fastDone, fastText, ex_raised>>
    /\ UNCHANGED exOthers
    /\ UNCHANGED <<ex_impl, pdf, ex_result, ocrCalls, ocrDone, ocrText>>

\* one iteration of the page loop of _extract_with_pdfplumber, or its return
M_FastPage ==
    /\ ex_impl = "main" /\ ex_pc = "fast"
    /\ IF page_num > NumPages
       THEN \* return "\n".join(text_parts)
            /\ text' = JoinNl(text_parts)
            /\ fastText' = JoinNl(text_parts)
            /\ fastDone' = TRUE
            /\ ex_pc' = "check"
            /\ UNCHANGED <<page_num, text_parts>>
       ELSE IF pdf.fast[page_num].raises
       THEN \* the try block spans the whole loop: return ""
            /\ text' = <<>>
            /\ fastText' = <<>>
            /\ fastDone' = TRUE
            /\ ex_pc' = "check"
            /\ UNCHANGED <<page_num, text_parts>>
       ELSE /\ text_parts' = IF pdf.fast[page_num].txt # <<>>
                             THEN Append(text_parts, pdf.fast[page_num].txt)
                             ELSE text_parts
            /\ page_num' = page_num + 1
            /\ UNCHANGED <<text, fastText, fastDone, ex_pc>>
    /\ UNCHANGED exOthers
    /\ UNCHANGED <<ex_impl, pdf, ex_result, ex_raised, ocrCalls, ocrDone, ocrText>>

\* if text and len(text.strip()) >= 50: return text.strip(); else fall back,
\* starting with convert_from_path inside _extract_with_ocr
M_Check ==
    /\ ex_impl = "main" /\ ex_pc = "check"
    /\ IF MeetsThreshold(text)
       THEN /\ ex_result' = Strip(text)
            /\ ex_pc' = "done"
            /\ UNCHANGED <<page_num, text, text_parts, ocrDone, ocrText>>
       ELSE IF pdf.rasterFails
       THEN \* except Exception: return ""
            /\ text' = <<>>
            /\ ocrText' = <<>>
            /\ ocrDone' = TRUE
            /\ ex_pc' = "final"
            /\ UNCHANGED <<page_num, text_parts, ex_result>>
       ELSE /\ ex_pc' = "ocr"
            /\ page_num' = 1
            /\ text_parts' = <<>>
            /\ UNCHANGED <<text, ex_result, ocrDone, ocrText>>
    /\ UNCHANGED exOthers
    /\ UNCHANGED <<ex_impl, pdf, ex_raised, ocrCalls, fastDone, fastText>>

\* one iteration of the image loop of _extract_with_ocr, or its return
M_OcrPage ==
    /\ ex_impl = "main" /\ ex_pc = "ocr"
    /\ IF page_num > NumPages
       THEN /\ text' = JoinNl(text_parts)
            /\ ocrText' = JoinNl(text_parts)
            /\ ocrDone' = TRUE
            /\ ex_pc' = "final"
            /\ UNCHANGED <<page_num, text_parts, ocrCalls>>
       ELSE /\ ocrCalls' = Append(ocrCalls, page_num)
            /\ IF pdf.ocr[page_num].raises
               THEN \* the try block spans the whole loop: return ""
                    /\ text' = <<>>
                    /\ ocrText' = <<>>
                    /\ ocrDone' = TRUE
                    /\ ex_pc' = "final"
                    /\ UNCHANGED <<page_num, text_parts>>
               ELSE /\ text_parts' = IF Strip(pdf.ocr[page_num].txt) # <<>>
                                     THEN Append(text_parts, Strip(pdf.ocr[page_num].txt))
                                     ELSE text_parts
                    /\ page_num' = page_num + 1
                    /\ UNCHANGED <<text, ocrText, ocrDone, ex_pc>>
    /\ UNCHANGED exOthers
    /\ UNCHANGED <<ex_impl, pdf, ex_result, ex_raised, fastDone, fastText>>

\* the second threshold test and the last return: both return text.strip()
M_Final ==
    /\ ex_impl = "main" /\ ex_pc = "final"
    /\ ex_result' = IF MeetsThreshold(text)
                    THEN Strip(text)
                    ELSE IF text # <<>> THEN Strip(text) ELSE <<>>
    /\ ex_pc' = "done"
    /\ UNCHANGED exOthers
    /\ UNCHANGED <<ex_impl, pdf, page_num, text, text_parts, ex_raised, ocrCalls,
                   fastDone, fastText, ocrDone, ocrText>>

(***************************************************************************)
(* extract_text_from_pdf  (src/ai_ml/text_extraction.py)                   *)
(* One try block spans the function: any exception returns "".            *)
(***************************************************************************)
\* text = ""; pdfplumber.open(pdf_path)
T_Start ==
    /\ ex_impl = "te" /\ ex_pc = "start"
    /\ IF ~pdf.exists \/ pdf.openFails
       THEN /\ ex_result' = <<>>
            /\ ex_pc' = "done"
            /\ UNCHANGED <<page_num, text>>
       ELSE /\ text' = <<>>
            /\ page_num' = 1
            /\ ex_pc' = "fast"
            /\ UNCHANGED ex_result
    /\ UNCHANGED exOthers
    /\ UNCHANGED <<ex_impl, pdf, text_parts, ex_raised, ocrCalls, fastDone,
                   fastText, ocrDone, ocrText>>

\* one iteration of the loop over pdf.pages, or the end of the with block
T_FastPage ==
    /\ ex_impl = "te" /\ ex_pc = "fast"
    /\ IF page_num > NumPages
       THEN /\ fastText' = text
            /\ fastDone' = TRUE
            /\ ex_pc' = "check"
            /\ UNCHANGED <<page_num, text, ex_result>>
       ELSE IF pdf.fast[page_num].raises
       THEN /\ ex_result' = <<>>
            /\ ex_pc' = "done"
            /\ UNCHANGED <<page_num, text, fastText, fastDone>>
       ELSE /\ text' = IF pdf.fast[page_num].txt # <<>>
                       THEN text \o pdf.fast[page_num].txt \o <<"\n">>
                       ELSE text
            /\ page_num' = page_num + 1
            /\ UNCHANGED <<fastText, fastDone, ex_pc, ex_result>>
    /\ UNCHANGED exOthers
    /\ UNCHANGED <<ex_impl, pdf, text_parts, ex_raised, ocrCalls, ocrDone, ocrText>>

\* if len(text.strip()) >= 50: return text; else images = convert_from_path(...)
T_Check ==
    /\ ex_impl = "te" /\ ex_pc = "check"
    /\ IF Len(Strip(text)) >= MinChars
       THEN /\ ex_result' = text
            /\ ex_pc' = "done"
            /\ UNCHANGED page_num
       ELSE IF pdf.rasterFails
       THEN /\ ex_result' = <<>>
            /\ ex_pc' = "done"
            /\ UNCHANGED page_num
       ELSE /\ page_num' = 1
            /\ ex_pc' = "ocr"
            /\ UNCHANGED ex_result
    /\ UNCHANGED exOthers
    /\ UNCHANGED <<ex_impl, pdf, text, text_parts, ex_raised, ocrCalls, fastDone,
                   fastText, ocrDone, ocrText>>

\* one iteration of the loop over images, or the final return of text
T_OcrPage ==
    /\ ex_impl = "te" /\ ex_pc = "ocr"
    /\ IF page_num > NumPages
       THEN /\ ex_result' = text
            /\ ocrDone' = TRUE
            /\ ex_pc' = "done"
            /\ UNCHANGED <<page_num, text, ocrText, ocrCalls>>
       ELSE /\ ocrCalls' = Append(ocrCalls, page_num)
            /\ IF pdf.ocr[page_num].raises
               THEN /\ ex_result' = <<>>
                    /\ ex_pc' = "done"
                    /\ UNCHANGED <<page_num, text, ocrText, ocrDone>>
               ELSE /\ text' = text \o pdf.ocr[page_num].txt \o <<"\n">>
                    /\ ocrText' = ocrText \o pdf.ocr[page_num].txt \o <<"\n">>
                    /\ page_num' = page_num + 1
                    /\ UNCHANGED <<ex_result, ocrDone, ex_pc>>
    /\ UNCHANGED exOthers
    /\ UNCHANGED <<ex_impl, pdf, text_parts, ex_raised, fastDone, fastText>>

ExNext ==
    \/ M_Start \/ M_FastPage \/ M_Check \/ M_OcrPage \/ M_Final
    \/ T_Start \/ T_FastPage \/ T_Check \/ T_OcrPage

SpecExtract == ExInit /\ [][ExNext]_vars

(***************************************************************************)
(* Claims about the extractor                                              *)
(***************************************************************************)
FastSufficient == fastDone /\ Len(Strip(fastText)) >= MinChars
FastInsufficient == fastDone /\ Len(Strip(fastText)) < MinChars
OcrNeverInvoked == ocrCalls = <<>> /\ ~ocrDone /\ ex_pc \notin {"ocr", "final"}

\* C2 as stated: whenever the structured pass yields text whose trimmed length
\* is at least 50, that very text is returned, unchanged, and OCR is never
\* invoked during the call.
C2_ReturnedUnchanged ==
    FastSufficient =>
        /\ OcrNeverInvoked
        /\ ex_pc = "done" => ex_result = fastText

\* C2 as amended: whenever the structured pass yields text whose trimmed length
\* is at least 50, OCR is never invoked during the call and the text is
\* returned with at most its surrounding whitespace removed: extract_text
\* returns text.strip(), extract_text_from_pdf returns the text as it is.
C2_FastPathReturned ==
    FastSufficient =>
        /\ OcrNeverInvoked
        /\ ex_pc = "done" =>
              ex_result = IF ex_impl = "main" THEN Strip(fastText) ELSE fastText

\* a call that returned a sufficient structured text that had whitespace around it
C2_Witness ==
    /\ ex_pc = "done" /\ FastSufficient
    /\ fastText # Strip(fastText)
    /\ ex_result # <<>>

\* the document opens and rasterises; single pages may still fail
Readable == pdf.exists /\ ~pdf.openFails /\ ~pdf.rasterFails

\* no call on the document or on any of its pages raises
NoFailure ==
    /\ Readable
    /\ \A p \in 1..NumPages : ~pdf.fast[p].raises /\ ~pdf.ocr[p].raises

\* C3: whenever the structured pass yields text whose trimmed length is below
\* 50, OCR has been invoked exactly once on each page, page 1 first, by the
\* time the call returns (stated for documents that open and rasterise).
C3_OcrOncePerPageInOrder ==
    (ex_pc = "done" /\ FastInsufficient /\ Readable) =>
        ocrCalls = [k \in 1..NumPages |-> k]

\* C4: the extractor raises exactly when the path does not exist: a missing
\* path is reported as not found, an existing path always yields a string.
C4_RaisesIffMissing ==
    ex_pc \in {"done", "raised"} =>
        ((ex_pc = "raised" /\ ex_raised = "FileNotFoundError") <=> ~pdf.exists)

Longer(a, b) == IF Len(Strip(a)) >= Len(Strip(b)) THEN Len(Strip(a)) ELSE Len(Strip(b))

\* C5: when neither pass yields text of trimmed length at least 50, the text
\* returned is the longer (by trimmed length) of the two passes' texts, and it
\* is empty only if both are empty (stated for extract_text and for runs in
\* which nothing raises).
C5_BestOfBoth ==
    (/\ ex_impl = "main"
     /\ ex_pc = "done" /\ FastInsufficient /\ NoFailure
     /\ ocrDone /\ Len(Strip(ocrText)) < MinChars) =>
        /\ Strip(ex_result) \in {Strip(fastText), Strip(ocrText)}
        /\ Len(Strip(ex_result)) = Longer(fastText, ocrText)
        /\ ex_result = <<>> => (Strip(fastText) = <<>> /\ Strip(ocrText) = <<>>)

\* the text a pass owes when a raising page counts as an empty page
RECURSIVE KeptPages(_, _)
KeptPages(outs, strip) ==
    IF outs = <<>> THEN <<>>
    ELSE LET t == IF outs[1].raises THEN <<>>
                  ELSE IF strip THEN Strip(outs[1].txt) ELSE outs[1].txt
         IN  (IF t = <<>> THEN <<>> ELSE <<t>>) \o KeptPages(Tail(outs), strip)

\* C6: a page that raises during a pass counts as an empty page: the pass still
\* yields the text of every other page, in page order.
C6_FailingPageIsEmptyPage ==
    ex_impl = "main" =>
        /\ (fastDone /\ ~pdf.openFails) => fastText = JoinNl(KeptPages(pdf.fast, FALSE))
        /\ (ocrDone /\ ~pdf.rasterFails) => ocrText = JoinNl(KeptPages(pdf.ocr, TRUE))

(***************************************************************************)
(* json.loads on the subset of JSON made of objects, arrays, strings       *)
(* without escapes, unsigned integers and the three literals.  A parsed    *)
(* value is represented by its text without insignificant whitespace.      *)
(***************************************************************************)
Q == "\""
JsonWs == {" ", "\n", "\t", "\r"}
Digit == {"0", "1", "2", "3", "4", "5", "6", "7", "8", "9"}
Control == {"\n", "\t", "\r", "\f"}

At(s, i) == IF i >= 1 /\ i <= Len(s) THEN s[i] ELSE ""

RECURSIVE JSkip(_, _)
JSkip(s, i) == IF At(s, i) \in JsonWs THEN JSkip(s, i + 1) ELSE i

\* index after the closing quote of a string whose body starts at j, 0 if none
RECURSIVE StrEnd(_, _)
StrEnd(s, j) ==
    IF j > Len(s) THEN 0
    ELSE IF s[j] = Q THEN j + 1
    ELSE IF s[j] \in Control \/ s[j] = "\\" THEN 0
    ELSE StrEnd(s, j + 1)

RECURSIVE DigitsEnd(_, _)
DigitsEnd(s, j) == IF At(s, j) \in Digit THEN DigitsEnd(s, j + 1) ELSE j

MatchAt(s, i, w) == i + Len(w) - 1 <= Len(s) /\ SubSeq(s, i, i + Len(w) - 1) = w

RECURSIVE PValue(_, _)
RECURSIVE PMembers(_, _)
RECURSIVE PElems(_, _)

\* index after the value that starts at i, 0 if there is none
PValue(s, i) ==
    LET c == At(s, i)
    IN  IF c = "{" THEN
            (LET j == JSkip(s, i + 1)
             IN  IF At(s, j) = "}" THEN j + 1 ELSE PMembers(s, j))
        ELSE IF c = "[" THEN
            (LET j == JSkip(s, i + 1)
             IN  IF At(s, j) = "]" THEN j + 1 ELSE PElems(s, j))
        ELSE IF c = Q THEN StrEnd(s, i + 1)
        ELSE IF c = "0" THEN i + 1
        ELSE IF c \in Digit THEN DigitsEnd(s, i + 1)
        ELSE IF MatchAt(s, i, <<"n", "u", "l", "l">>) THEN i + 4
        ELSE IF MatchAt(s, i, <<"t", "r", "u", "e">>) THEN i + 4
        ELSE IF MatchAt(s, i, <<"f", "a", "l", "s", "e">>) THEN i + 5
        ELSE 0

PMembers(s, j) ==
    IF At(s, j) # Q THEN 0
    ELSE LET k == StrEnd(s, j + 1)
         IN  IF k = 0 THEN 0
             ELSE LET c == JSkip(s, k)
                  IN  IF At(s, c) # ":" THEN 0
                      ELSE LET v == PValue(s, JSkip(s, c + 1))
                           IN  IF v = 0 THEN 0
                               ELSE LET e == JSkip(s, v)
                                    IN  IF At(s, e) = "}" THEN e + 1
                                        ELSE IF At(s, e) = ","
                                             THEN PMembers(s, JSkip(s, e + 1))
                                        ELSE 0

PElems(s, j) ==
    LET v == PValue(s, j)
    IN  IF v = 0 THEN 0
        ELSE LET e == JSkip(s, v)
             IN  IF At(s, e) = "]" THEN e + 1
                 ELSE IF At(s, e) = "," THEN PElems(s, JSkip(s, e + 1))
                 ELSE 0

JsonValid(s) ==
    LET e == PValue(s, JSkip(s, 1))
    IN  e # 0 /\ JSkip(s, e) = Len(s) + 1

RECURSIVE Canon(_, _, _)
Canon(s, i, inStr) ==
    IF i > Len(s) THEN <<>>
    ELSE IF s[i] = Q THEN <<Q>> \o Canon(s, i + 1, ~inStr)
    ELSE IF ~inStr /\ s[i] \in JsonWs THEN Canon(s, i + 1, inStr)
    ELSE <<s[i]>> \o Canon(s, i + 1, inStr)

json_loads(s) ==
    IF JsonValid(s) THEN [ok |-> TRUE, value |-> Canon(s, 1, FALSE)]
    ELSE [ok |-> FALSE, value |-> <<>>]

IsObject(v) == At(v, 1) = "{"

(***************************************************************************)
(* str helpers                                                             *)
(***************************************************************************)
StartsWith(s, w) == MatchAt(s, 1, w)
EndsWith(s, w) == Len(s) >= Len(w) /\ SubSeq(s, Len(s) - Len(w) + 1, Len(s)) = w
Drop(s, n) == SubSeq(s, n + 1, Len(s))
DropLast(s, n) == SubSeq(s, 1, Len(s) - n)
Take(s, n) == SubSeq(s, 1, IF Len(s) < n THEN Len(s) ELSE n)
LStrip(s) == SubSeq(s, LSkip(s, 1), Len(s))
RStrip(s) == SubSeq(s, 1, RSkip(s, Len(s)))

\* str.find(c) and str.rfind(c), 0-based, -1 when absent
FindFrom(s, c, i) ==
    LET hits == {k \in i..Len(s) : s[k] = c}
    IN  IF hits = {} THEN -1 ELSE (CHOOSE k \in hits : \A m \in hits : k <= m) - 1
RFindFrom(s, c, i) ==
    LET hits == {k \in 1..i : s[k] = c}
    IN  IF hits = {} THEN -1 ELSE (CHOOSE k \in hits : \A m \in hits : k >= m) - 1
Find(s, c) == FindFrom(s, c, 1)
RFind(s, c) == RFindFrom(s, c, Len(s))

\* s[a:b] for 0 <= a
Slice(s, a, b) == SubSeq(s, a + 1, IF b > Len(s) THEN Len(s) ELSE b)

\* the backtick character (the lexer of the tools rejects it inside a string)
Tick == "BACKTICK"
Fence == <<Tick, Tick, Tick>>
FenceJson == Fence \o <<"j", "s", "o", "n">>

(***************************************************************************)
(* Replies of the model: a body, possibly inside a code fence, possibly    *)
(* with whitespace or prose around it.                                     *)
(***************************************************************************)
DiagChars == 500       \* characters of the raw reply kept for diagnostics

ObjA == <<"{", Q, "a", Q, ":", "1", "}">>
Bodies ==
    LET ObjEmpty == <<"{", "}">>
        ObjSpaced == <<"{", " ", Q, "a", Q, ":", " ", "1", " ", "}">>
        ObjBraceInString == <<"{", Q, "a", Q, ":", Q, "}", Q, "}">>
        ObjNested == <<"{", Q, "a", Q, ":", "{", Q, "b", Q, ":", "[", "1", ",", "2", "]", "}", "}">>
        ArrOne == <<"[", "1", "]">>
        ArrOfObj == <<"[", "{", Q, "a", Q, ":", "1", "}", "]">>
        StrValue == <<Q, "a", Q>>
        NullValue == <<"n", "u", "l", "l">>
        Truncated == <<"{", Q, "a", Q, ":">>
        TwoObjects == <<"{", "}", " ", "{", "}">>
        Prose == <<"n", "o">>
    IN
    { ObjEmpty, ObjA, ObjSpaced, ObjBraceInString, ObjNested, ArrOne, ArrOfObj,
      StrValue, NullValue, Truncated, TwoObjects, Prose, <<>> }

Leads == { <<>>, <<" ">>, <<"H", "i", ":", " ">>, <<"{", "x", "}", " ">> }
Trails == { <<>>, <<"\n">>, <<" ", "o", "k">>, <<" ", "{", "y", "}">> }
Opens == { <<>>, Fence, FenceJson, Fence \o <<"p", "y">> }
Closes == { <<>>, Fence }
Seps == { Rep("\n", k) : k \in 0..MaxPad }

Shapes ==
    [lead : Leads, open : Opens, sep1 : Seps, sep2 : Seps, close : Closes, trail : Trails]

\* a reply longer than the diagnostic excerpt: prose, then possibly an object
LongShapes ==
    [lead : {Rep("x", DiagChars + 1)}, open : {<<>>}, sep1 : {<<>>}, sep2 : {<<>>},
     close : {<<>>}, trail : {<<>>}]

Build(sh, body) ==
    sh.lead \o sh.open \o sh.sep1 \o body \o sh.sep2 \o sh.close \o sh.trail

(***************************************************************************)
(* The normalisers.                                                        *)
(*   "ge"  gemini_extractor.extract_syllabus_info                          *)
(*   "opt" main.extract_optimized_syllabus_info                            *)
(*   "gp"  gemini_processor.analyze_syllabus_text                          *)
(*   "te"  text_extraction.extract_syllabus_info                           *)
(*   "api" api.extract_syllabus (generate_voice_summary cleans alike)      *)
(***************************************************************************)
NmImpls == {"ge", "opt", "gp", "te", "api"}

NmInit ==
    /\ IdleExcept({"nm"})
    /\ nm_impl \in NmImpls
    /\ \E sh \in Shapes \cup LongShapes :
         \E body \in (IF sh \in LongShapes THEN {<<>>, ObjA} ELSE Bodies) :
            /\ shape = sh
            /\ inner = body
            /\ reply = Build(sh, body)
    /\ nm_pc = "clean"
    /\ response_text = <<>>
    /\ nm_result = NoValue
    /\ nm_error = NoError

\* the cleaning with the closing-fence test left out
CleanSlices_Unguarded(r) ==
    LET a == Strip(r)
        b == IF StartsWith(a, FenceJson) THEN Drop(a, 7) ELSE a
    IN  Strip(DropLast(b, 3))

\* strip(); startswith(fence + 'json') -> [7:]; endswith(fence) -> [:-3]; strip()
CleanSlices(r) ==
    LET a == Strip(r)
        b == IF StartsWith(a, FenceJson) THEN Drop(a, 7) ELSE a
        c == IF EndsWith(b, Fence) THEN DropLast(b, 3) ELSE b
    IN  Strip(c)

\* strip(); if startswith(fence): sub('^' fence '(?:json)?\s*', ''), sub('\s*' fence '$', '')
CleanRegex(r) ==
    LET a == Strip(r)
        b == Drop(a, 3)
        c == IF StartsWith(b, <<"j", "s", "o", "n">>) THEN Drop(b, 4) ELSE b
        d == LStrip(c)
    IN  IF StartsWith(a, Fence)
        THEN (IF EndsWith(d, Fence) THEN RStrip(DropLast(d, 3)) ELSE d)
        ELSE a

Raised(t, st, why) == [type |-> t, status |-> st, reason |-> why, raw |-> <<>>]
Parsed(v, md) == [value |-> v, metadata |-> md, error |-> "", raw_response |-> <<>>]

\* gemini_extractor, gemini_processor, main.py: the empty-reply test and the cleaning
N_CleanSlices ==
    /\ nm_impl \in {"ge", "opt", "gp"} /\ nm_pc = "clean"
    /\ IF reply = <<>>
       THEN /\ nm_pc' = "raised"
            /\ nm_error' = Raised("Exception", 0, "Empty response from Gemini API")
            /\ UNCHANGED response_text
       ELSE /\ response_text' = CleanSlices(reply)
            /\ nm_pc' = "parse"
            /\ UNCHANGED nm_error
    /\ UNCHANGED nmOthers
    /\ UNCHANGED <<nm_impl, reply, inner, shape, nm_result>>

\* text_extraction, api: the cleaning
N_CleanRegex ==
    /\ nm_impl \in {"te", "api"} /\ nm_pc = "clean"
    /\ response_text' = CleanRegex(reply)
    /\ nm_pc' = "parse"
    /\ UNCHANGED nmOthers
    /\ UNCHANGED <<nm_impl, reply, inner, shape, nm_result, nm_error>>

\* json.loads(response_text) and what each copy does with its outcome
N_Parse ==
    /\ nm_pc = "parse"
    /\ LET p == json_loads(response_text)
       IN  IF p.ok
           THEN IF nm_impl \in {"ge", "gp", "te"}
                THEN /\ nm_result' = Parsed(p.value, FALSE)
                     /\ nm_pc' = "returned"
                     /\ UNCHANGED nm_error
                ELSE IF nm_impl = "opt"
                THEN \* result.get('chapters', []) on the parsed value
                     IF IsObject(p.value)
                     THEN /\ nm_result' = Parsed(p.value, FALSE)
                          /\ nm_pc' = "returned"
                          /\ UNCHANGED nm_error
                     ELSE /\ nm_error' = Raised("Exception", 0, "AttributeError")
                          /\ nm_pc' = "raised"
                          /\ UNCHANGED nm_result
                ELSE \* api: analysis_result['metadata'] = {...}
                     IF IsObject(p.value)
                     THEN /\ nm_result' = Parsed(p.value, TRUE)
                          /\ nm_pc' = "returned"
                          /\ UNCHANGED nm_error
                     ELSE /\ nm_error' = Raised("HTTPException", 500, "TypeError")
                          /\ nm_pc' = "raised"
                          /\ UNCHANGED nm_result
           ELSE IF nm_impl \in {"ge", "opt"}
                THEN /\ nm_pc' = "slice"
                     /\ UNCHANGED <<nm_result, nm_error>>
                ELSE IF nm_impl = "gp"
                THEN /\ nm_error' = Raised("Exception", 0, "JSONDecodeError")
                     /\ nm_pc' = "raised"
                     /\ UNCHANGED nm_result
                ELSE IF nm_impl = "te"
                THEN \* return {"error": ..., "raw_response": response.text[:500]}
                     /\ nm_result' = [value |-> <<>>, metadata |-> FALSE,
                                      error |-> "Failed to parse AI response",
                                      raw_response |-> Take(reply, DiagChars)]
                     /\ nm_pc' = "returned"
                     /\ UNCHANGED nm_error
                ELSE /\ nm_error' = Raised("HTTPException", 500, "JSONDecodeError")
                     /\ nm_pc' = "raised"
                     /\ UNCHANGED nm_result
    /\ UNCHANGED nmOthers
    /\ UNCHANGED <<nm_impl, reply, inner, shape, response_text>>

\* the text between the first '{' and the last '}' of response_text
BraceSlice(rt) ==
    LET start_idx == Find(rt, "{")
        end_idx == RFind(rt, "}") + 1
    IN  IF start_idx # -1 /\ end_idx > start_idx
        THEN [found |-> TRUE, json_text |-> Slice(rt, start_idx, end_idx)]
        ELSE [found |-> FALSE, json_text |-> <<>>]

\* gemini_extractor, main.py: the recovery attempt after a failed parse
N_Slice ==
    /\ nm_impl \in {"ge", "opt"} /\ nm_pc = "slice"
    /\ LET b == BraceSlice(response_text)
           q == json_loads(b.json_text)
       IN  IF b.found /\ q.ok
           THEN /\ nm_result' = Parsed(q.value, FALSE)
                /\ nm_pc' = "returned"
                /\ UNCHANGED nm_error
           ELSE \* raise Exception(f"Failed to parse JSON response: {e}")
                /\ nm_error' = Raised("Exception", 0, "JSONDecodeError")
                /\ nm_pc' = "raised"
                /\ UNCHANGED nm_result
    /\ UNCHANGED nmOthers
    /\ UNCHANGED <<nm_impl, reply, inner, shape, response_text>>

NmNext == N_CleanSlices \/ N_CleanRegex \/ N_Parse \/ N_Slice

SpecNorm == NmInit /\ [][NmNext]_vars

(***************************************************************************)
(* Claims about the normalisers                                            *)
(***************************************************************************)
NmEnded == nm_pc \in {"returned", "raised"}

\* the caller got the parse of text t, and nothing else
ReturnedParseOf(t) ==
    /\ nm_pc = "returned"
    /\ nm_result = Parsed(json_loads(t).value, FALSE)

\* C7: for every reply that is already valid JSON text (no fence, no prose
\* around it), gemini_extractor.extract_syllabus_info,
\* gemini_processor.analyze_syllabus_text and
\* text_extraction.extract_syllabus_info return exactly the value obtained by
\* parsing the reply directly.
C7_CleanJsonIsParsedDirectly ==
    (nm_impl \in {"ge", "gp", "te"} /\ JsonValid(reply) /\ NmEnded) =>
        ReturnedParseOf(reply)

\* a valid reply with whitespace in and around it went through the normaliser
C7_Witness ==
    /\ nm_impl \in {"ge", "gp", "te"} /\ JsonValid(reply) /\ nm_pc = "returned"
    /\ reply # response_text
    /\ response_text # nm_result.value
    /\ nm_result.value # <<>>

\* the reply is a valid JSON value inside one code fence, the opening fence
\* bare or tagged json and on a line of its own
SingleFence ==
    /\ shape.lead = <<>> /\ shape.trail = <<>>
    /\ shape.open \in {Fence, FenceJson}
    /\ shape.sep1 # <<>>
    /\ shape.close = Fence
    /\ JsonValid(inner)

\* C8: for every reply that is a valid JSON value wrapped in a single code
\* fence (bare or tagged), the normaliser strips both fences and returns the
\* parse of the inner value.  Stated for gemini_extractor on every value and
\* for api.py on objects (the handler stores metadata into the value).
C8_FenceStripped ==
    (/\ SingleFence /\ NmEnded
     /\ nm_impl = "ge" \/ (nm_impl = "api" /\ IsObject(Strip(inner)))) =>
        /\ nm_pc = "returned"
        /\ nm_result.value = json_loads(inner).value

\* the reply is a JSON object with brace-free prose before and after it
ObjectInProse ==
    /\ shape.open = <<>> /\ shape.close = <<>>
    /\ shape.lead = <<"H", "i", ":", " ">>
    /\ shape.trail = <<" ", "o", "k">>
    /\ JsonValid(inner) /\ IsObject(inner)

\* C9: a JSON object preceded and followed by prose is recovered as that object
\* by every normaliser (stated for gemini_extractor and gemini_processor).
C9_ObjectInProseRecovered ==
    (nm_impl \in {"ge", "gp"} /\ ObjectInProse /\ NmEnded) =>
        ReturnedParseOf(inner)

\* neither the direct parse nor the brace-slice parse of the cleaned reply succeeds
Unparseable ==
    /\ nm_pc \in {"slice", "returned", "raised"}
    /\ reply # <<>>
    /\ ~json_loads(response_text).ok
    /\ ~(BraceSlice(response_text).found
         /\ json_loads(BraceSlice(response_text).json_text).ok)

\* the caller is told of a failure: an exception, or a record with an error field
FailureSignalled == nm_pc = "raised" \/ (nm_pc = "returned" /\ nm_result.error # "")

\* the part of the raw reply that the failure carries
Excerpt == IF nm_pc = "raised" THEN nm_error.raw ELSE nm_result.raw_response

\* C10: when neither parse succeeds the normaliser signals a parse failure to
\* its caller (no parsed value is returned) and the failure carries the first
\* 500 characters of the raw reply.
C10_ParseErrorCarriesExcerpt ==
    (nm_impl \in {"ge", "opt", "te"} /\ Unparseable /\ NmEnded) =>
        /\ FailureSignalled
        /\ nm_result.value = <<>>
        /\ Excerpt = Take(reply, DiagChars)

(***************************************************************************)
(* The upload handlers of src/ai_ml/api.py.  Each saves the upload in a    *)
(* NamedTemporaryFile(delete=False) and removes it in a finally block.     *)
(***************************************************************************)
Handlers == {"extract", "extract_text_only", "voice_summary", "upload"}
Procs == {"ok", "model_error", "parse_error", "no_audio"}
TempFile == "tmp.pdf"

ApiInit ==
    /\ IdleExcept({"api"})
    /\ api_handler \in Handlers
    /\ upload \in [is_pdf : BOOLEAN, empty : BOOLEAN, read_fails : BOOLEAN,
                   write_fails : BOOLEAN]
    /\ env \in [gemini : BOOLEAN, elevenlabs : BOOLEAN]
    /\ proc \in Procs
    /\ api_pc = "validate"
    /\ temp_path = "unbound"
    /\ files = {}
    /\ api_status = 0
    /\ api_exc = ""
    /\ model_called = FALSE
    /\ store_written = FALSE

\* the checks made before the try block, in the order of each handler
Rejection ==
    IF api_handler = "extract"
    THEN IF ~upload.is_pdf THEN 400 ELSE IF ~env.gemini THEN 500 ELSE 0
    ELSE IF api_handler \in {"extract_text_only", "upload"}
    THEN IF ~upload.is_pdf THEN 400 ELSE 0
    ELSE IF ~env.gemini THEN 500
         ELSE IF ~env.elevenlabs THEN 500
         ELSE IF ~upload.is_pdf THEN 400 ELSE 0

\* filename and key checks; extract and voice_summary then set temp_path = None
A_Validate ==
    /\ api_pc = "validate"
    /\ IF Rejection # 0
       THEN /\ api_status' = Rejection
            /\ api_exc' = "HTTPException"
            /\ api_pc' = "responded"
            /\ UNCHANGED temp_path
       ELSE /\ temp_path' = IF api_handler \in {"extract_text_only", "upload"}
                          THEN "unbound" ELSE "None"
            /\ api_pc' = IF api_handler = "upload" THEN "u_read" ELSE "create"
            /\ UNCHANGED <<api_status, api_exc>>
    /\ UNCHANGED apiOthers
    /\ UNCHANGED <<api_handler, upload, env, proc, files, model_called, store_written>>

\* with tempfile.NamedTemporaryFile(delete=False, suffix='.pdf') as temp_file
A_CreateTemp ==
    /\ api_pc = "create"
    /\ files' = files \cup {TempFile}
    /\ api_pc' = "read"
    /\ UNCHANGED apiOthers
    /\ UNCHANGED <<api_handler, upload, env, proc, temp_path, api_status, api_exc, model_called, store_written>>

\* content = await file.read()
A_ReadUpload ==
    /\ api_pc = "read"
    /\ IF upload.read_fails
       THEN /\ api_exc' = "OSError"
            /\ api_pc' = "finally"
       ELSE /\ api_pc' = "write"
            /\ UNCHANGED api_exc
    /\ UNCHANGED apiOthers
    /\ UNCHANGED <<api_handler, upload, env, proc, temp_path, files, api_status, model_called, store_written>>

\* temp_file.write(content); temp_path = temp_file.name
A_WriteTemp ==
    /\ api_pc = "write"
    /\ IF upload.write_fails
       THEN /\ api_exc' = "OSError"
            /\ api_pc' = "finally"
            /\ UNCHANGED temp_path
       ELSE /\ temp_path' = TempFile
            /\ api_pc' = "process"
            /\ UNCHANGED api_exc
    /\ UNCHANGED apiOthers
    /\ UNCHANGED <<api_handler, upload, env, proc, files, api_status, model_called, store_written>>

\* the inner try block: model call, parsing, audio; any exception becomes
\* HTTPException(500).  extract_text_only calls extract_text, a name api.py
\* neither defines nor imports: NameError, hence 500.
A_Process ==
    /\ api_pc = "process"
    /\ LET ok == /\ api_handler # "extract_text_only"
                 /\ proc = "ok" \/ (proc = "no_audio" /\ api_handler = "extract")
       IN  IF ok
           THEN /\ api_status' = 200
                /\ UNCHANGED api_exc
           ELSE /\ api_status' = 500
                /\ api_exc' = "HTTPException"
    /\ model_called' = (api_handler # "extract_text_only")
    /\ api_pc' = "finally"
    /\ UNCHANGED apiOthers
    /\ UNCHANGED <<api_handler, upload, env, proc, temp_path, files, store_written>>

\* finally: if temp_path and os.path.exists(temp_path): os.unlink(temp_path)
\* (extract_text_only tests os.path.exists(temp_path) on a name that is
\* unbound when the with block was left early: UnboundLocalError)
A_Finally ==
    /\ api_pc = "finally"
    /\ IF temp_path = "unbound"
       THEN /\ api_exc' = "UnboundLocalError"
            /\ UNCHANGED files
       ELSE /\ files' = IF temp_path # "None" /\ temp_path \in files
                        THEN files \ {temp_path} ELSE files
            /\ UNCHANGED api_exc
    /\ api_status' = IF api_status = 0 THEN 500 ELSE api_status
    /\ api_pc' = "responded"
    /\ UNCHANGED apiOthers
    /\ UNCHANGED <<api_handler, upload, env, proc, temp_path, model_called, store_written>>

\* upload_syllabus (src/legacy/backend/routers/upload.py): read the bytes,
\* refuse an empty file; another exception becomes HTTPException(500)
U_Read ==
    /\ api_pc = "u_read"
    /\ IF upload.read_fails
       THEN /\ api_status' = 500
            /\ api_exc' = "HTTPException"
            /\ api_pc' = "responded"
       ELSE IF upload.empty
       THEN /\ api_status' = 400
            /\ api_exc' = "HTTPException"
            /\ api_pc' = "responded"
       ELSE /\ api_pc' = "u_parse"
            /\ UNCHANGED <<api_status, api_exc>>
    /\ UNCHANGED apiOthers
    /\ UNCHANGED <<api_handler, upload, env, proc, temp_path, files, model_called,
                   store_written>>

\* parsed_data = await get_parsed_syllabus(file_bytes, file.filename)
U_Parse ==
    /\ api_pc = "u_parse"
    /\ model_called' = TRUE
    /\ IF proc \in {"ok", "no_audio"}
       THEN /\ api_pc' = "u_store"
            /\ UNCHANGED <<api_status, api_exc>>
       ELSE /\ api_status' = 500
            /\ api_exc' = "HTTPException"
            /\ api_pc' = "responded"
    /\ UNCHANGED apiOthers
    /\ UNCHANGED <<api_handler, upload, env, proc, temp_path, files, store_written>>

\* syllabi_collection.add(syllabus_doc) and the return
U_Store ==
    /\ api_pc = "u_store"
    /\ store_written' = TRUE
    /\ api_status' = 200
    /\ api_pc' = "responded"
    /\ UNCHANGED apiOthers
    /\ UNCHANGED <<api_handler, upload, env, proc, temp_path, files, api_exc,
                   model_called>>

ApiNext ==
    \/ A_Validate \/ A_CreateTemp \/ A_ReadUpload \/ A_WriteTemp
    \/ A_Process \/ A_Finally
    \/ U_Read \/ U_Parse \/ U_Store

SpecApi == ApiInit /\ [][ApiNext]_vars

\* C1: in each of the three handlers every temporary file created for the
\* uploaded bytes has been deleted by the time the handler exits, on every
\* exit path, an exception while reading or writing the upload included.
C1_TempFileDeletedOnExit ==
    api_pc = "responded" => files = {}

(***************************************************************************)
(* validate_extraction_data of src/ai_ml/gemini_extractor.py.              *)
(* A Python value is a record: its type, its truth value, and for a list   *)
(* the kinds of its elements.  The argument also has fields: for a dict,   *)
(* the value under each key (Absent when the key is not in the dict).      *)
(***************************************************************************)
Absent == [kind |-> "absent", truthy |-> FALSE, items |-> <<>>]
VEmptyList == [kind |-> "list", truthy |-> FALSE, items |-> <<>>]
VEmptyDict == [kind |-> "dict", truthy |-> FALSE, items |-> <<>>]
\* elements of a list: an entry whose date is YYYY-MM-DD, an entry whose date
\* is free text, and a bare string
DictElems == {"dict_iso_date", "dict_free_date"}

required_keys == {"course_name"}
list_keys == {"chapters", "homework", "exams", "projects", "academic_dates"}
VdKeys == required_keys \cup {"professor"} \cup list_keys

\* the arguments of the model: every dict over these values, and some non-dicts
VdArgs ==
    LET VNull == [kind |-> "null", truthy |-> FALSE, items |-> <<>>]
        VZero == [kind |-> "num", truthy |-> FALSE, items |-> <<>>]
        VEmptyStr == [kind |-> "str", truthy |-> FALSE, items |-> <<>>]
        VStr == [kind |-> "str", truthy |-> TRUE, items |-> <<>>]
        VDict == [kind |-> "dict", truthy |-> TRUE, items |-> <<>>]
        VList(items) == [kind |-> "list", truthy |-> TRUE, items |-> items]
        NoFields == [k \in VdKeys |-> Absent]
        ProfessorValues == {Absent, VEmptyDict, VDict, VNull, VZero, VEmptyStr, VStr, VEmptyList}
        ListValues ==
            {Absent, VEmptyList, VList(<<"dict_iso_date">>), VList(<<"dict_free_date">>),
             VList(<<"dict_iso_date", "str">>), VStr}
        VdDicts ==
            { [kind |-> "dict", truthy |-> TRUE, items |-> <<>>, fields |-> f] :
                f \in [course_name : {Absent, VStr},
                       professor : ProfessorValues,
                       chapters : ListValues, homework : ListValues, exams : ListValues,
                       projects : ListValues, academic_dates : ListValues] }
        VdNonDicts ==
            { [kind |-> v.kind, truthy |-> v.truthy, items |-> v.items, fields |-> NoFields] :
                v \in {VNull, VZero, VStr, VEmptyList, VList(<<"dict_iso_date">>)} }
    IN  VdDicts \cup VdNonDicts

VdInit ==
    /\ IdleExcept({"vd"})
    /\ vd_data \in VdArgs
    /\ vd_pc = "call"
    /\ vd_result = FALSE

VdRet(b) == [raised |-> "", value |-> b]
VdRaise(e) == [raised |-> e, value |-> FALSE]

\* the test with every value taken for a dict
IsDict_Any(v) == TRUE

\* isinstance(v, dict)
IsDict(v) == v.kind = "dict"

\* isinstance(v, list)
IsList(v) == v.kind = "list"

\* key in d
KeyIn(key, d) ==
    IF d.kind = "dict" THEN VdRet(d.fields[key].kind # "absent")
    ELSE IF d.kind \in {"str", "list"} THEN VdRet(FALSE)
    ELSE VdRaise("TypeError")

\* the value of d.get(key, default); d is a dict
Get(d, key, default) ==
    IF d.fields[key].kind = "absent" THEN default ELSE d.fields[key]

\* the value returned, or the exception raised
validate_extraction_data(data) ==
    IF ~IsDict(data) THEN VdRet(FALSE)
    ELSE IF \E key \in required_keys : KeyIn(key, data).raised # ""
         THEN VdRaise("TypeError")
    ELSE IF \E key \in required_keys : ~KeyIn(key, data).value THEN VdRet(FALSE)
    ELSE IF data.kind # "dict" THEN VdRaise("AttributeError")
    ELSE LET professor == Get(data, "professor", VEmptyDict)
         IN  IF professor.truthy /\ ~IsDict(professor) THEN VdRet(FALSE)
             ELSE IF \E key \in list_keys : ~IsList(Get(data, key, VEmptyList))
                  THEN VdRet(FALSE)
             ELSE VdRet(TRUE)

V_Validate ==
    /\ vd_pc = "call"
    /\ LET r == validate_extraction_data(vd_data)
       IN  /\ vd_pc' = IF r.raised = "" THEN "returned" ELSE "raised"
           /\ vd_result' = r.value
    /\ UNCHANGED vd_data
    /\ UNCHANGED vdOthers

VdNext == V_Validate

SpecValidate == VdInit /\ [][VdNext]_vars

Present(key) == vd_data.kind = "dict" /\ vd_data.fields[key].kind # "absent"

\* a sequence all of whose elements are key-value mappings
ListOfDicts(v) ==
    v.kind = "list" /\ \A i \in 1..Len(v.items) : v.items[i] \in DictElems

WrongShape ==
    \/ Present("professor") /\ vd_data.fields["professor"].kind # "dict"
    \/ \E key \in list_keys : Present(key) /\ ~ListOfDicts(vd_data.fields[key])

\* C11: validate returns false whenever professor is present and is not a
\* mapping (empty or falsy non-mappings included), or one of chapters,
\* homework, exams, projects, academic_dates is present and is not a sequence
\* whose elements are all mappings.
C11_WrongShapeRejected ==
    (vd_pc = "returned" /\ WrongShape) => vd_result = FALSE

HasFreeDate ==
    \E key \in list_keys :
        \E i \in 1..Len(vd_data.fields[key].items) :
            vd_data.fields[key].items[i] = "dict_free_date"

\* C12: validate never raises, whatever its argument; it returns false when
\* the argument is not a mapping or has no course_name; it returns true for
\* a record of correct shapes, one whose dates are not YYYY-MM-DD included.
C12_ValidateIsTotal ==
    /\ vd_pc # "raised"
    /\ vd_pc = "returned" =>
        /\ vd_result \in BOOLEAN
        /\ (vd_data.kind # "dict" \/ ~Present("course_name")) => vd_result = FALSE
        /\ (Present("course_name") /\ ~WrongShape) => vd_result = TRUE

C12_Witness ==
    /\ vd_pc = "returned"
    /\ vd_result = TRUE
    /\ ~WrongShape
    /\ HasFreeDate

(***************************************************************************)
(* estimate_study_schedule of src/ai_ml/study_estimator.py.                *)
(* A string that is compared (a date) is the sequence of its code points;  *)
(* hours of the daily schedule are kept in tenths of an hour.              *)
(***************************************************************************)
\* the course records of the model: keys missing, lists empty, dates missing,
\* empty, equal across courses and out of order
Courses ==
    LET Date_0901 == <<50, 48, 50, 53, 45, 48, 57, 45, 48, 49>>   \* "2025-09-01"
        Date_1015 == <<50, 48, 50, 53, 45, 49, 48, 45, 49, 53>>   \* "2025-10-15"
        Date_1210 == <<50, 48, 50, 53, 45, 49, 50, 45, 49, 48>>   \* "2025-12-10"
        Chapter(h) == [has_hours |-> TRUE, weekly_hours |-> h]
        ChapterNoHours == [has_hours |-> FALSE, weekly_hours |-> 0]
        Entry(d, t) == [has_date |-> TRUE, date |-> d, has_title |-> TRUE, title |-> t]
        EntryNoDate(t) == [has_date |-> FALSE, date |-> <<>>, has_title |-> TRUE, title |-> t]
        EntryNoTitle(d) == [has_date |-> TRUE, date |-> d, has_title |-> FALSE, title |-> ""]
        CourseKeys == {"course_name", "chapters", "homework", "exams", "projects"}
        CourseNoKeys ==
            [has |-> {}, course_name |-> "", chapters |-> <<>>, homework |-> <<>>,
             exams |-> <<>>, projects |-> <<>>]
        CourseA ==
            [has |-> CourseKeys \ {"projects"}, course_name |-> "A",
             chapters |-> <<Chapter(3), ChapterNoHours>>,
             homework |-> <<Entry(Date_1210, "HW2"), Entry(Date_0901, "HW1")>>,
             exams |-> <<Entry(Date_1015, "Midterm")>>,
             projects |-> <<>>]
        CourseB ==
            [has |-> CourseKeys, course_name |-> "B",
             chapters |-> <<Chapter(5)>>,
             homework |-> <<EntryNoDate("HW")>>,
             exams |-> <<Entry(<<>>, "Final")>>,
             projects |-> <<Entry(Date_1015, "P1")>>]
        CourseC ==
            [has |-> CourseKeys, course_name |-> "C",
             chapters |-> <<>>, homework |-> <<>>, exams |-> <<>>,
             projects |-> <<EntryNoTitle(Date_0901)>>]
        CourseD ==
            [has |-> CourseKeys \ {"course_name", "exams"}, course_name |-> "",
             chapters |-> <<Chapter(1), Chapter(8)>>,
             homework |-> <<Entry(Date_1015, "HW1")>>,
             exams |-> <<>>,
             projects |-> <<EntryNoDate("P"), Entry(Date_1210, "P2")>>]
        CourseE ==
            [has |-> {"course_name", "chapters"}, course_name |-> "E",
             chapters |-> <<ChapterNoHours, ChapterNoHours, Chapter(2)>>,
             homework |-> <<>>, exams |-> <<>>, projects |-> <<>>]
    IN  {CourseNoKeys, CourseA, CourseB, CourseC, CourseD, CourseE}

CourseLists == UNION { [1..n -> Courses] : n \in 0..MaxCourses }

AgInit ==
    /\ IdleExcept({"ag"})
    /\ courses \in CourseLists
    /\ ag_pc = "total"
    /\ total_weekly_hours = 0
    /\ daily_schedule = <<>>
    /\ weekly_schedule = <<>>
    /\ deadlines = <<>>

RECURSIVE SumSeq(_)
SumSeq(q) == IF q = <<>> THEN 0 ELSE q[1] + SumSeq(Tail(q))

\* the default that counts nothing for a chapter without weekly_hours
DefaultHours_Zero(ch) == 0

\* the default of chapter.get('weekly_hours', 2)
DefaultHours(ch) == 2

\* chapter.get('weekly_hours', 2)
ChapterHours(ch) == IF ch.has_hours THEN ch.weekly_hours ELSE DefaultHours(ch)

\* course.get(key, [])
CGet(course, key) == IF key \in course.has THEN course[key] ELSE <<>>

\* course.get('course_name', 'Unknown')
CourseName(course) ==
    IF "course_name" \in course.has THEN course.course_name ELSE "Unknown"

\* the hours of the first chapter alone
CourseHours_First(course) ==
    LET chs == CGet(course, "chapters")
    IN  IF chs = <<>> THEN 0 ELSE ChapterHours(chs[1])

\* sum(chapter.get('weekly_hours', 2) for chapter in course.get('chapters', []))
CourseHours(course) ==
    LET chs == CGet(course, "chapters")
    IN  SumSeq([i \in 1..Len(chs) |-> ChapterHours(chs[i])])

\* the total taken from the first course only
TotalHours_FirstCourse(cs) == IF cs = <<>> THEN 0 ELSE CourseHours(cs[1])

TotalHours(cs) == SumSeq([i \in 1..Len(cs) |-> CourseHours(cs[i])])

\* num / den cut down to a whole number
Round_Floor(num, den) == num \div den

\* num / den to the nearest whole number, a tie to the even one
Round(num, den) ==
    LET q == num \div den
        r == num % den
    IN  IF 2 * r < den THEN q
        ELSE IF 2 * r > den THEN q + 1
        ELSE IF q % 2 = 0 THEN q ELSE q + 1

days == <<"monday", "tuesday", "wednesday", "thursday", "friday", "saturday", "sunday">>

\* round((total_hours / 7) / len(courses), 1), in tenths
RoundedShare(total_hours, n) == Round(10 * total_hours, 7 * n)

generate_daily_schedule(cs, total_hours) ==
    [day \in {days[k] : k \in 1..Len(days)} |->
        [i \in 1..Len(cs) |->
            [course |-> CourseName(cs[i]),
             hours |-> RoundedShare(total_hours, Len(cs)),
             focus |-> "Study and assignments"]]]

generate_weekly_schedule(cs) ==
    LET weekly_data ==
            [i \in 1..Len(cs) |->
                [course_name |-> CourseName(cs[i]),
                 weekly_hours |-> CourseHours(cs[i]),
                 chapters |-> Len(CGet(cs[i], "chapters")),
                 assignments |-> Len(CGet(cs[i], "homework")),
                 exams |-> Len(CGet(cs[i], "exams")),
                 projects |-> Len(CGet(cs[i], "projects"))]]
    IN  [total_hours |-> SumSeq([i \in 1..Len(cs) |-> weekly_data[i].weekly_hours]),
         courses |-> weekly_data]

\* a < b for two Python strings: code points compared left to right, a proper
\* prefix before the longer string
StrLess(a, b) ==
    \E i \in 1..(Len(b)) :
        /\ \A k \in 1..(i - 1) : k <= Len(a) /\ a[k] = b[k]
        /\ (i > Len(a) \/ (i <= Len(a) /\ a[i] < b[i]))
        /\ i - 1 <= Len(a)

StrLeq(a, b) == a = b \/ StrLess(a, b)

\* the default that stands for "no date" with a word
NoDate_Word(e) == <<84, 66, 68>>     \* "TBD"

\* the default of .get('due_date', '') and .get('date', '')
NoDate(e) == <<>>

\* hw.get('due_date', ''), exam.get('date', ''), project.get('due_date', '')
DateOf(e) == IF e.has_date THEN e.date ELSE NoDate(e)

\* hw.get('title', ''), exam.get('type', ''), project.get('title', '')
TitleOf(e) == IF e.has_title THEN e.title ELSE ""

\* every kind of entry tagged medium
Priority_Medium(type) == "medium"

Priority(type) == IF type = "homework" THEN "medium" ELSE "high"

\* one appended record
Deadline(e, type, course_name) ==
    [date |-> DateOf(e), type |-> type, title |-> TitleOf(e),
     course |-> course_name, priority |-> Priority(type)]

\* the records one course appends: homework, then exams, then projects
CourseDeadlines(course) ==
    LET name == CourseName(course)
        hw == CGet(course, "homework")
        ex == CGet(course, "exams")
        pr == CGet(course, "projects")
    IN  [i \in 1..Len(hw) |-> Deadline(hw[i], "homework", name)]
        \o [i \in 1..Len(ex) |-> Deadline(ex[i], "exam", name)]
        \o [i \in 1..Len(pr) |-> Deadline(pr[i], "project", name)]

RECURSIVE AllDeadlines(_)
AllDeadlines(cs) ==
    IF cs = <<>> THEN <<>> ELSE CourseDeadlines(cs[1]) \o AllDeadlines(Tail(cs))

\* an ascending sort that puts a record before the records of equal date
RECURSIVE SortByDate_Unstable(_)
SortByDate_Unstable(q) ==
    IF q = <<>> THEN <<>>
    ELSE LET x == q[Len(q)]
             t == SortByDate_Unstable(SubSeq(q, 1, Len(q) - 1))
             k == Cardinality({i \in 1..Len(t) : StrLess(t[i].date, x.date)})
         IN  SubSeq(t, 1, k) \o <<x>> \o SubSeq(t, k + 1, Len(t))

\* list.sort(key=lambda x: x.get('date', '')): ascending and stable
RECURSIVE SortByDate(_)
SortByDate(q) ==
    IF q = <<>> THEN <<>>
    ELSE LET x == q[Len(q)]
             t == SortByDate(SubSeq(q, 1, Len(q) - 1))
             k == Cardinality({i \in 1..Len(t) : StrLeq(t[i].date, x.date)})
         IN  SubSeq(t, 1, k) \o <<x>> \o SubSeq(t, k + 1, Len(t))

collect_deadlines(cs) == SortByDate(AllDeadlines(cs))

E_Total ==
    /\ ag_pc = "total"
    /\ total_weekly_hours' = TotalHours(courses)
    /\ ag_pc' = "daily"
    /\ UNCHANGED <<courses, daily_schedule, weekly_schedule, deadlines>>
    /\ UNCHANGED agOthers

E_Daily ==
    /\ ag_pc = "daily"
    /\ daily_schedule' = generate_daily_schedule(courses, total_weekly_hours)
    /\ ag_pc' = "weekly"
    /\ UNCHANGED <<courses, total_weekly_hours, weekly_schedule, deadlines>>
    /\ UNCHANGED agOthers

E_Weekly ==
    /\ ag_pc = "weekly"
    /\ weekly_schedule' = generate_weekly_schedule(courses)
    /\ ag_pc' = "deadlines"
    /\ UNCHANGED <<courses, total_weekly_hours, daily_schedule, deadlines>>
    /\ UNCHANGED agOthers

E_Deadlines ==
    /\ ag_pc = "deadlines"
    /\ deadlines' = collect_deadlines(courses)
    /\ ag_pc' = "returned"
    /\ UNCHANGED <<courses, total_weekly_hours, daily_schedule, weekly_schedule>>
    /\ UNCHANGED agOthers

AgNext == E_Total \/ E_Daily \/ E_Weekly \/ E_Deadlines

SpecAggregate == AgInit /\ [][AgNext]_vars

AgReturned == ag_pc = "returned"

InputKey(type) ==
    IF type = "homework" THEN "homework" ELSE IF type = "exam" THEN "exams" ELSE "projects"

EntriesOf(i, type) ==
    IF InputKey(type) \in courses[i].has THEN courses[i][InputKey(type)] ELSE <<>>

\* every homework, exam and project entry of the input: <<course, type, index>>
Slots ==
    { <<i, type, j>> : i \in 1..Len(courses), type \in {"homework", "exam", "project"},
                       j \in 1..3 } \cap
    { sl \in (1..Len(courses)) \X {"homework", "exam", "project"} \X (1..3) :
        sl[3] <= Len(EntriesOf(sl[1], sl[2])) }

SlotEntry(sl) == EntriesOf(sl[1], sl[2])[sl[3]]

SlotHasNoDate(sl) == ~SlotEntry(sl).has_date \/ SlotEntry(sl).date = <<>>

\* the record an entry is to be turned into
RecOf(sl) ==
    LET e == SlotEntry(sl)
        c == courses[sl[1]]
    IN  [date |-> IF e.has_date THEN e.date ELSE <<>>,
         type |-> sl[2],
         title |-> IF e.has_title THEN e.title ELSE "",
         course |-> IF "course_name" \in c.has THEN c.course_name ELSE "Unknown",
         priority |-> IF sl[2] = "homework" THEN "medium" ELSE "high"]

Count(q, r) == Cardinality({k \in 1..Len(q) : q[k] = r})

\* C13: the deadlines list holds exactly one record per homework, exam and
\* project entry of every course, each record has exactly the fields date,
\* type, title, course, priority, homework is tagged medium and exams and
\* projects high, and the list ascends by the date string.
C13_DeadlinesFlattenedAndSorted ==
    AgReturned =>
        /\ Len(deadlines) = Cardinality(Slots)
        /\ \A sl \in Slots :
              Count(deadlines, RecOf(sl)) =
                  Cardinality({t \in Slots : RecOf(t) = RecOf(sl)})
        /\ \A k \in 1..Len(deadlines) :
              /\ DOMAIN deadlines[k] = {"date", "type", "title", "course", "priority"}
              /\ deadlines[k].type = "homework" => deadlines[k].priority = "medium"
              /\ deadlines[k].type \in {"exam", "project"} => deadlines[k].priority = "high"
        /\ \A a, b \in 1..Len(deadlines) :
              a < b => StrLeq(deadlines[a].date, deadlines[b].date)

C13_Witness ==
    /\ AgReturned
    /\ Len(courses) = 2
    /\ {deadlines[k].type : k \in 1..Len(deadlines)} = {"homework", "exam", "project"}
    /\ deadlines # AllDeadlines(courses)

ChapterSlots ==
    { cs \in (1..Len(courses)) \X (1..3) :
        /\ "chapters" \in courses[cs[1]].has
        /\ cs[2] <= Len(courses[cs[1]].chapters) }

HoursAt(cs) ==
    LET ch == courses[cs[1]].chapters[cs[2]]
    IN  IF ch.has_hours THEN ch.weekly_hours ELSE 2

RECURSIVE SumHours(_)
SumHours(S) ==
    IF S = {} THEN 0
    ELSE LET x == CHOOSE x \in S : TRUE IN HoursAt(x) + SumHours(S \ {x})

Permuted(p) == [i \in 1..Len(courses) |-> courses[p[i]]]

\* C15: total_weekly_hours is the sum of weekly_hours over all chapters of
\* all courses, 2 counted for a chapter without weekly_hours, and is the same
\* for every permutation of the course list.
C15_TotalIsOrderIndependentSum ==
    ag_pc \in {"daily", "weekly", "deadlines", "returned"} =>
        /\ total_weekly_hours = SumHours(ChapterSlots)
        /\ \A p \in Permutations(1..Len(courses)) :
              TotalHours(Permuted(p)) = total_weekly_hours

C15_Witness ==
    /\ AgReturned
    /\ Len(courses) = 2
    /\ CourseHours(courses[1]) # CourseHours(courses[2])
    /\ \E cs \in ChapterSlots : ~courses[cs[1]].chapters[cs[2]].has_hours
    /\ total_weekly_hours > 2

\* C16: daily_schedule has exactly the seven day keys, each day lists one
\* entry per course in input order, and every entry's hours is
\* (total_weekly_hours / 7) / len(courses) to one decimal, the same for every
\* course and day whatever the course's own workload.
C16_DailyScheduleEvenSplit ==
    ag_pc \in {"weekly", "deadlines", "returned"} =>
        /\ DOMAIN daily_schedule =
              {"monday", "tuesday", "wednesday", "thursday", "friday", "saturday", "sunday"}
        /\ \A day \in DOMAIN daily_schedule :
              /\ Len(daily_schedule[day]) = Len(courses)
              /\ \A i \in 1..Len(courses) :
                    LET en == daily_schedule[day][i]
                        n == Len(courses)
                        d == 7 * n * en.hours - 10 * total_weekly_hours
                    IN  /\ en.course = (IF "course_name" \in courses[i].has
                                        THEN courses[i].course_name ELSE "Unknown")
                        /\ 2 * d <= 7 * n
                        /\ -(2 * d) <= 7 * n
                        /\ en.hours = daily_schedule["monday"][1].hours

C16_Witness ==
    /\ AgReturned
    /\ Len(courses) = 2
    /\ CourseHours(courses[1]) = 0
    /\ CourseHours(courses[2]) = 9
    /\ daily_schedule["sunday"][1].hours = daily_schedule["monday"][2].hours
    /\ daily_schedule["sunday"][1].hours = 6

Requests == 1..MaxRequests

OutputPath == "output/macdonald_summary.mp3"

VsInit ==
    /\ IdleExcept({"vs"})
    /\ vs_pc = [r \in Requests |-> "upload"]
    /\ vs_temp = [r \in Requests |-> 0]
    /\ summary_text = [r \in Requests |-> 0]
    /\ audio_path = [r \in Requests |-> ""]
    /\ audio_data = [r \in Requests |-> 0]
    /\ vs_status = [r \in Requests |-> 0]
    /\ temp_files = {}
    /\ output_mp3 = 0

\* NamedTemporaryFile(delete=False): a name no other request has
S_SaveUpload(r) ==
    /\ vs_pc[r] = "upload"
    /\ vs_temp' = [vs_temp EXCEPT ![r] = r]
    /\ temp_files' = temp_files \cup {r}
    /\ vs_pc' = [vs_pc EXCEPT ![r] = "summarise"]
    /\ UNCHANGED <<summary_text, audio_path, audio_data, vs_status, output_mp3>>
    /\ UNCHANGED vsOthers

\* the model call on the request's own temp file, then generate_humorous_summary
S_Summarise(r) ==
    /\ vs_pc[r] = "summarise"
    /\ \/ /\ summary_text' = [summary_text EXCEPT ![r] = vs_temp[r]]
          /\ vs_pc' = [vs_pc EXCEPT ![r] = "generate"]
          /\ UNCHANGED vs_status
       \/ /\ vs_status' = [vs_status EXCEPT ![r] = 500]
          /\ vs_pc' = [vs_pc EXCEPT ![r] = "finally"]
          /\ UNCHANGED summary_text
    /\ UNCHANGED <<vs_temp, audio_path, audio_data, temp_files, output_mp3>>
    /\ UNCHANGED vsOthers

\* generate_mp3_with_elevenlabs: save(audio, output_path), or None on an error
S_GenerateMp3(r) ==
    /\ vs_pc[r] = "generate"
    /\ \/ /\ output_mp3' = summary_text[r]
          /\ audio_path' = [audio_path EXCEPT ![r] = OutputPath]
       \/ /\ audio_path' = [audio_path EXCEPT ![r] = "None"]
          /\ UNCHANGED output_mp3
    /\ vs_pc' = [vs_pc EXCEPT ![r] = "read"]
    /\ UNCHANGED <<vs_temp, summary_text, audio_data, vs_status, temp_files>>
    /\ UNCHANGED vsOthers

\* if audio_path and os.path.exists(audio_path): read it; else 500
S_ReadAudio(r) ==
    /\ vs_pc[r] = "read"
    /\ IF audio_path[r] = OutputPath /\ output_mp3 # 0
       THEN /\ audio_data' = [audio_data EXCEPT ![r] = output_mp3]
            /\ vs_pc' = [vs_pc EXCEPT ![r] = "unlink"]
            /\ UNCHANGED vs_status
       ELSE /\ vs_status' = [vs_status EXCEPT ![r] = 500]
            /\ vs_pc' = [vs_pc EXCEPT ![r] = "finally"]
            /\ UNCHANGED audio_data
    /\ UNCHANGED <<vs_temp, summary_text, audio_path, temp_files, output_mp3>>
    /\ UNCHANGED vsOthers

\* os.unlink(audio_path) and the return; FileNotFoundError becomes a 500
S_UnlinkAudio(r) ==
    /\ vs_pc[r] = "unlink"
    /\ IF output_mp3 # 0
       THEN /\ output_mp3' = 0
            /\ vs_status' = [vs_status EXCEPT ![r] = 200]
       ELSE /\ vs_status' = [vs_status EXCEPT ![r] = 500]
            /\ UNCHANGED output_mp3
    /\ vs_pc' = [vs_pc EXCEPT ![r] = "finally"]
    /\ UNCHANGED <<vs_temp, summary_text, audio_path, audio_data, temp_files>>
    /\ UNCHANGED vsOthers

\* finally: unlink the request's temp file
S_Finally(r) ==
    /\ vs_pc[r] = "finally"
    /\ temp_files' = temp_files \ {vs_temp[r]}
    /\ vs_pc' = [vs_pc EXCEPT ![r] = "responded"]
    /\ UNCHANGED <<vs_temp, summary_text, audio_path, audio_data, vs_status, output_mp3>>
    /\ UNCHANGED vsOthers

VsNext ==
    \E r \in Requests :
        \/ S_SaveUpload(r) \/ S_Summarise(r) \/ S_GenerateMp3(r)
        \/ S_ReadAudio(r) \/ S_UnlinkAudio(r) \/ S_Finally(r)

SpecVoice == VsInit /\ [][VsNext]_vars

\* C18: two requests in progress share no mutable state: whatever the
\* interleaving, a request that read an audio file read the one made from its
\* own upload, and a request whose own audio was saved answers 200 with it.
C18_RequestsShareNoState ==
    \A r \in Requests :
        /\ audio_data[r] # 0 => audio_data[r] = r
        /\ (vs_pc[r] = "responded" /\ audio_path[r] = OutputPath) =>
              (vs_status[r] = 200 /\ audio_data[r] = r)

\* C19: an upload with a non-PDF filename or with zero bytes is answered
\* with a 4xx status on /extract, /extract-text-only, /voice-summary and
\* /upload, whatever keys are configured, and neither the model is called
\* nor the store written for it.
C19_BadUploadIsClientError ==
    (~upload.is_pdf \/ upload.empty) =>
        /\ ~model_called
        /\ ~store_written
        /\ api_pc = "responded" => api_status \in 400..499

\* C28: in every result, weekly_schedule.total_hours equals
\* total_weekly_hours, and both equal the sum of the weekly_hours of the
\* courses listed in weekly_schedule.courses.
C28_WeeklyTotalsAgree ==
    AgReturned =>
        /\ weekly_schedule.total_hours = total_weekly_hours
        /\ Len(weekly_schedule.courses) = Len(courses)
        /\ total_weekly_hours =
              SumSeq([i \in 1..Len(weekly_schedule.courses) |->
                         weekly_schedule.courses[i].weekly_hours])

C28_Witness ==
    /\ AgReturned
    /\ Len(weekly_schedule.courses) = 2
    /\ weekly_schedule.courses[1].weekly_hours > 0
    /\ weekly_schedule.courses[2].weekly_hours >
          weekly_schedule.courses[1].weekly_hours

\* the records of course i in collection order: homework, exams, projects
CollectedOf(i) ==
    LET recs(type) ==
            [j \in 1..Len(EntriesOf(i, type)) |-> RecOf(<<i, type, j>>)]
    IN  recs("homework") \o recs("exam") \o recs("project")

\* the records of the first n courses in collection order
RECURSIVE CollectedUpTo(_)
CollectedUpTo(n) ==
    IF n = 0 THEN <<>> ELSE CollectedUpTo(n - 1) \o CollectedOf(n)

\* the records of q that carry the date d, in the order of q
WithDate(q, d) == SelectSeq(q, LAMBDA r : r.date = d)

\* C29: deadlines with equal date strings keep their collection order in
\* the sorted output: courses in input order, within a course homework
\* before exams before projects, each group in its original order.
C29_EqualDatesKeepCollectionOrder ==
    AgReturned =>
        \A sl \in Slots :
            WithDate(deadlines, RecOf(sl).date) =
                WithDate(CollectedUpTo(Len(courses)), RecOf(sl).date)

C29_Witness ==
    /\ AgReturned
    /\ \E i \in 1..(Len(deadlines) - 1) :
          /\ deadlines[i].date = deadlines[i + 1].date
          /\ deadlines[i].date # <<>>
          /\ deadlines[i].course # deadlines[i + 1].course
          /\ deadlines[i].type # deadlines[i + 1].type

(***************************************************************************)
(* process_syllabus_deep of src/ai_ml/deep_extraction_example.py:          *)
(* main.extract_text, then gemini_extractor.extract_syllabus_info.         *)
(***************************************************************************)
DpInit ==
    /\ ExStart
    /\ ex_impl = "main"
    /\ dp_pc = "extract"
    /\ dp_key \in BOOLEAN
    /\ dp_result = [error |-> "", cause |-> ""]
    /\ gemini_called = FALSE
    /\ dp_validated = FALSE
    /\ IdleExcept({"ex", "dp"})

\* the text extract_syllabus_info refuses
TooShort(t) == t = <<>> \/ Len(Strip(t)) < MinAnalysisChars

\* Step 1: extracted_text = extract_text(pdf_path), an exception becomes an
\* error dict
D_Extracted ==
    /\ dp_pc = "extract"
    /\ ex_pc \in {"done", "raised"}
    /\ IF ex_pc = "raised"
       THEN /\ dp_result' = [error |-> "Text extraction failed", cause |-> ex_raised]
            /\ dp_pc' = "returned"
       ELSE /\ dp_pc' = "analyze"
            /\ UNCHANGED dp_result
    /\ UNCHANGED <<dp_key, gemini_called, dp_validated>>
    /\ UNCHANGED exVars
    /\ UNCHANGED dpOthers

\* Step 2: extract_syllabus_info(extracted_text, api_key): the length test,
\* configure_gemini_api, then the model call, which answers or fails
D_Analyze ==
    /\ dp_pc = "analyze"
    /\ IF TooShort(ex_result)
       THEN /\ dp_result' = [error |-> "Deep analysis failed", cause |-> "ValueError: text"]
            /\ UNCHANGED gemini_called
       ELSE IF ~dp_key
       THEN /\ dp_result' = [error |-> "Deep analysis failed", cause |-> "ValueError: key"]
            /\ UNCHANGED gemini_called
       ELSE /\ gemini_called' = TRUE
            /\ \/ dp_result' = [error |-> "", cause |-> ""]
               \/ dp_result' = [error |-> "Deep analysis failed", cause |-> "Gemini API error"]
    /\ dp_pc' = "returned"
    /\ UNCHANGED <<dp_key, dp_validated>>
    /\ UNCHANGED exVars
    /\ UNCHANGED dpOthers

D_Extract ==
    /\ dp_pc = "extract"
    /\ M_Start \/ M_FastPage \/ M_Check \/ M_OcrPage \/ M_Final

\* main(): the result came back without an "error" key, was printed raw and
\* summarised, and only then validate_extraction_data(result) runs
D_MainValidate ==
    /\ dp_pc = "returned"
    /\ dp_result.error = ""
    /\ dp_validated' = TRUE
    /\ dp_pc' = "validated"
    /\ UNCHANGED <<dp_key, dp_result, gemini_called>>
    /\ UNCHANGED exVars
    /\ UNCHANGED dpOthers

DpNext == D_Extract \/ D_Extracted \/ D_Analyze \/ D_MainValidate

SpecDeep == DpInit /\ [][DpNext]_vars

BothInsufficient ==
    /\ ex_pc = "done"
    /\ Len(Strip(fastText)) < MinChars
    /\ Len(Strip(ocrText)) < MinChars

\* C20: when the structured pass and the OCR pass both yield text whose
\* trimmed length is below 50, the pipeline returns an error to its caller
\* and the model is never called with that text.
C20_InsufficientTextNeverReachesModel ==
    BothInsufficient =>
        /\ ~gemini_called
        /\ dp_pc = "returned" => dp_result.error # ""

\* C22: extraction, prompt construction, model call and normalisation run
\* in that order, and structured data is returned to the caller only after
\* validation has been run on it.
C22_ReturnedOnlyAfterValidation ==
    /\ gemini_called => ex_pc = "done"
    /\ dp_pc \in {"returned", "validated"} /\ dp_result.error = "" =>
           gemini_called /\ dp_validated


\* ======================================================================
\* Prompt construction: the source text embedded in each Gemini prompt
\* ======================================================================

\* characters of the text[:n] slices
ExtractorBudget == 6000
ProcessorBudget == 4000

\* how far the sample texts go below and above a budget
MaxOver == 1

PromptBuilders == {"gemini_extractor", "gemini_processor", "main",
                   "text_extraction"}

\* sample texts: the character at a position depends on the position, so
\* that two different slices of one text differ
PromptTexts ==
    LET lens == {0, MinAnalysisChars}
                \cup {b + d : b \in {ProcessorBudget, ExtractorBudget},
                              d \in (0 - MaxOver)..MaxOver}
    IN {[i \in 1..n |-> IF i % k = 0 THEN "x" ELSE "y"] :
            n \in lens, k \in {2, 3, 7}}

\* the text the f-string interpolates
EmbeddedText(impl, t) ==
    CASE impl = "gemini_extractor" -> Take(t, ExtractorBudget)
      [] impl = "main"             -> Take(t, ExtractorBudget)
      [] impl = "gemini_processor" -> Take(t, ProcessorBudget)
      [] impl = "text_extraction"  -> t

\* if not text or len(text.strip()) < 10: raise ValueError
PromptGuard(impl, t) ==
    impl = "text_extraction" \/ Len(LStrip(RStrip(t))) >= MinAnalysisChars

PbInit ==
    /\ pb_impl \in PromptBuilders
    /\ pb_text \in PromptTexts
    /\ pb_pc = "build"
    /\ pb_embedded = <<>>
    /\ IdleExcept({"pb"})

B_Reject ==
    /\ pb_pc = "build"
    /\ ~PromptGuard(pb_impl, pb_text)
    /\ pb_pc' = "raised"
    /\ UNCHANGED <<pb_impl, pb_text, pb_embedded>>
    /\ UNCHANGED pbOthers

B_BuildPrompt ==
    /\ pb_pc = "build"
    /\ PromptGuard(pb_impl, pb_text)
    /\ pb_embedded' = EmbeddedText(pb_impl, pb_text)
    /\ pb_pc' = "built"
    /\ UNCHANGED <<pb_impl, pb_text>>
    /\ UNCHANGED pbOthers

PbNext ==
    \/ B_Reject
    \/ B_BuildPrompt

SpecPrompt == PbInit /\ [][PbNext]_vars

\* C21: every prompt that was built embeds at most the fixed character
\* budget (the largest budget any builder uses) of the source text, and
\* what it embeds is a prefix of that text.
C21_PromptEmbedsBoundedPrefix ==
    pb_pc = "built" =>
        /\ Len(pb_embedded) <= ExtractorBudget
        /\ Len(pb_embedded) <= Len(pb_text)
        /\ pb_embedded = SubSeq(pb_text, 1, Len(pb_embedded))


\* ======================================================================
\* Backend routers: POST /upload/, GET /upload/{id}, POST /calendar/sync/{id}
\* and services.ai_service.get_parsed_syllabus
\* ======================================================================

MaxDocs == 2

\* the mock user of upload_syllabus and the users that authenticate
MockUser == "test_user"
Callers == {"u1", "u2"}

NoResp == [status |-> 0, detail |-> "", data |-> <<>>]

\* what requests.post(AI_ML_URL/extract, timeout=120) does: it raises, or
\* it returns a response with a status (and, on 200, a JSON body)
AiReplies ==
    {[exc |-> e, status |-> 0, assignments |-> FALSE] :
        e \in {"Timeout", "ConnectionError"}}
    \cup {[exc |-> "", status |-> s, assignments |-> FALSE] : s \in {422, 500}}
    \cup {[exc |-> "", status |-> 200, assignments |-> a] : a \in BOOLEAN}

\* except requests.exceptions.RequestException
IsRequestException_None(e) == FALSE
IsRequestException(e) == e \in {"Timeout", "ConnectionError"}

\* get_parsed_syllabus: the HTTPException raised for a status other than
\* 200 is raised inside the try block, and the handler "except Exception"
\* catches it, HTTPException being an Exception
get_parsed_syllabus(ai) ==
    LET body == IF ai.exc # ""
                THEN [exc |-> ai.exc, status |-> 0, detail |-> ""]
                ELSE IF ai.status # 200
                THEN [exc |-> "HTTPException", status |-> ai.status,
                      detail |-> "AI service error: text"]
                ELSE [exc |-> "", status |-> 200, detail |-> ""]
    IN IF body.exc = "" THEN body
       ELSE IF IsRequestException(body.exc)
       THEN [exc |-> "HTTPException", status |-> 503,
             detail |-> "AI service unavailable"]
       ELSE [exc |-> "HTTPException", status |-> 500,
             detail |-> "Failed to parse syllabus"]

\* file.filename.lower().endswith('.pdf')
PdfCheck_Skip(f) == TRUE
PdfCheck(f) == f.is_pdf

\* syllabus_doc of upload_syllabus
SyllabusDoc(owner, assignments) ==
    [user_id |-> owner, filename |-> "f", uploaded_at |-> "utcnow",
     parsed_data |-> [assignments |-> assignments], status |-> "processed"]

\* a PDF with content, a file of another type, an empty PDF, and an upload
\* whose read raises
UploadFiles ==
    {[is_pdf |-> TRUE, empty |-> FALSE, read_fails |-> FALSE],
     [is_pdf |-> FALSE, empty |-> FALSE, read_fails |-> FALSE],
     [is_pdf |-> TRUE, empty |-> TRUE, read_fails |-> FALSE],
     [is_pdf |-> TRUE, empty |-> FALSE, read_fails |-> TRUE]}

BackendRequests ==
    LET aPdf == [is_pdf |-> TRUE, empty |-> FALSE, read_fails |-> FALSE]
        anOk == [exc |-> "", status |-> 200, assignments |-> FALSE]
        ids == 1..(MaxDocs + 1)
    IN [handler : {"upload"}, user : Callers, id : {0}, file : UploadFiles,
        ai : AiReplies, add_fails : BOOLEAN, calendar_fails : {FALSE}]
       \cup
       [handler : {"get_syllabus"}, user : Callers, id : ids, file : {aPdf},
        ai : {anOk}, add_fails : {FALSE}, calendar_fails : {FALSE}]
       \cup
       [handler : {"sync"}, user : Callers, id : ids, file : {aPdf},
        ai : {anOk}, add_fails : {FALSE}, calendar_fails : BOOLEAN]

\* the collection outlives the process: it may already hold documents of
\* the users that authenticate
BeInit ==
    /\ be_db \in BOOLEAN
    /\ be_store \in
          IF be_db
          THEN UNION {[1..n -> {SyllabusDoc(o, a) :
                                  o \in Callers, a \in BOOLEAN}] :
                      n \in 0..MaxDocs}
          ELSE {<<>>}
    /\ be_store0 = be_store
    /\ be_req \in BackendRequests
    /\ be_pc = "start"
    /\ be_resp = NoResp
    /\ be_n = 1
    /\ IdleExcept({"be"})

Respond(status, detail, data) ==
    /\ be_resp' = [status |-> status, detail |-> detail, data |-> data]
    /\ be_pc' = "responded"

\* the next request arrives once the previous one is answered
Be_Receive ==
    /\ be_pc = "responded"
    /\ be_n < MaxRequests
    /\ be_n' = be_n + 1
    /\ be_req' \in BackendRequests
    /\ be_store0' = be_store
    /\ be_pc' = "start"
    /\ be_resp' = NoResp
    /\ UNCHANGED <<be_db, be_store>>
    /\ UNCHANGED beOthers

\* upload_syllabus: the file type check
Up_CheckName ==
    /\ be_pc = "start"
    /\ be_req.handler = "upload"
    /\ IF ~PdfCheck(be_req.file)
       THEN Respond(400, "Only PDF files are supported", <<>>)
       ELSE /\ be_pc' = "read"
            /\ UNCHANGED be_resp
    /\ UNCHANGED <<be_db, be_store, be_store0, be_req, be_n>>
    /\ UNCHANGED beOthers

\* file_bytes = await file.read() and the length check
Up_Read ==
    /\ be_pc = "read"
    /\ IF be_req.file.read_fails
       THEN Respond(500, "Failed to process syllabus", <<>>)
       ELSE IF be_req.file.empty
       THEN Respond(400, "Empty file provided", <<>>)
       ELSE /\ be_pc' = "parse"
            /\ UNCHANGED be_resp
    /\ UNCHANGED <<be_db, be_store, be_store0, be_req, be_n>>
    /\ UNCHANGED beOthers

\* parsed_data = await get_parsed_syllabus(...); except HTTPException: raise
Up_Parse ==
    /\ be_pc = "parse"
    /\ LET r == get_parsed_syllabus(be_req.ai)
       IN IF r.exc # ""
          THEN Respond(r.status, r.detail, <<>>)
          ELSE /\ be_pc' = "store"
               /\ UNCHANGED be_resp
    /\ UNCHANGED <<be_db, be_store, be_store0, be_req, be_n>>
    /\ UNCHANGED beOthers

\* syllabus_doc is built for the mock current_user and added to the
\* collection (or, without a collection, only logged)
Up_Store ==
    /\ be_pc = "store"
    /\ LET doc == SyllabusDoc(MockUser, be_req.ai.assignments)
       IN IF ~be_db
          THEN /\ Respond(200, "", <<doc>>)
               /\ UNCHANGED be_store
          ELSE IF be_req.add_fails
          THEN /\ Respond(500, "Failed to process syllabus", <<>>)
               /\ UNCHANGED be_store
          ELSE /\ be_store' = Append(be_store, doc)
               /\ Respond(200, "", <<doc>>)
    /\ UNCHANGED <<be_db, be_store0, be_req, be_n>>
    /\ UNCHANGED beOthers

\* doc_data.get("user_id") != current_user["user_id"] is the refusal
Owns_Anyone(doc, user) == TRUE
Owns(doc, user) == doc.user_id = user

\* get_syllabus
G_GetSyllabus ==
    /\ be_pc = "start"
    /\ be_req.handler = "get_syllabus"
    /\ IF ~be_db
       THEN Respond(500, "Failed to fetch syllabus", <<>>)
       ELSE IF be_req.id > Len(be_store)
       THEN Respond(404, "Syllabus not found", <<>>)
       ELSE IF ~Owns(be_store[be_req.id], be_req.user)
       THEN Respond(403, "Access denied", <<>>)
       ELSE Respond(200, "", <<be_store[be_req.id]>>)
    /\ UNCHANGED <<be_db, be_store, be_store0, be_req, be_n>>
    /\ UNCHANGED beOthers

\* sync_syllabus_to_calendar
K_Sync ==
    /\ be_pc = "start"
    /\ be_req.handler = "sync"
    /\ IF ~be_db
       THEN /\ Respond(500, "Failed to sync to calendar", <<>>)
            /\ UNCHANGED be_store
       ELSE IF be_req.id > Len(be_store)
       THEN /\ Respond(404, "Syllabus not found", <<>>)
            /\ UNCHANGED be_store
       ELSE IF ~Owns(be_store[be_req.id], be_req.user)
       THEN /\ Respond(403, "Access denied", <<>>)
            /\ UNCHANGED be_store
       ELSE IF ~be_store[be_req.id].parsed_data.assignments
       THEN /\ Respond(400, "No assignments found in syllabus", <<>>)
            /\ UNCHANGED be_store
       ELSE IF be_req.calendar_fails
       THEN /\ Respond(500, "Failed to sync to calendar", <<>>)
            /\ UNCHANGED be_store
       ELSE /\ be_store' =
                  [be_store EXCEPT ![be_req.id] =
                      [calendar_synced |-> TRUE,
                       calendar_sync_date |-> "utcnow"] @@ @]
            /\ Respond(200, "", <<>>)
    /\ UNCHANGED <<be_db, be_store0, be_req, be_n>>
    /\ UNCHANGED beOthers

BeNext ==
    \/ Be_Receive
    \/ Up_CheckName
    \/ Up_Read
    \/ Up_Parse
    \/ Up_Store
    \/ G_GetSyllabus
    \/ K_Sync

SpecBackend == BeInit /\ [][BeNext]_vars

\* the current upload request has written its document
UploadWrote ==
    /\ be_req.handler = "upload"
    /\ Len(be_store) = Len(be_store0) + 1

\* C23: every record the upload endpoint writes carries a user_id equal to
\* the identifier of the user who uploaded it, an uploaded_at timestamp and
\* a status.
C23_WrittenRecordOwnedByUploader ==
    UploadWrote =>
        LET doc == be_store[Len(be_store)]
        IN /\ {"user_id", "uploaded_at", "status"} \subseteq DOMAIN doc
           /\ doc.user_id = be_req.user


\* the upload passed the file checks, so get_parsed_syllabus is called
FilePassed ==
    /\ be_req.handler = "upload"
    /\ be_req.file.is_pdf
    /\ ~be_req.file.empty
    /\ ~be_req.file.read_fails

AiUnreachable == be_req.ai.exc \in {"Timeout", "ConnectionError"}

\* C24: when the call to the AI service times out or the service cannot be
\* reached, get_parsed_syllabus ends with an HTTPException of status 503
\* (service unavailable), the upload answers 503, and the store is not
\* written.
C24_UnreachableAiIs503 ==
    (FilePassed /\ AiUnreachable) =>
        /\ get_parsed_syllabus(be_req.ai).exc = "HTTPException"
        /\ get_parsed_syllabus(be_req.ai).status = 503
        /\ be_store = be_store0
        /\ be_pc = "responded" => be_resp.status = 503

C24_Witness ==
    /\ FilePassed
    /\ AiUnreachable
    /\ be_pc = "responded"
    /\ be_resp.detail = "AI service unavailable"

\* C25: when the AI service answers with a status other than 200,
\* get_parsed_syllabus raises an HTTPException carrying that same status
\* and the response text, and upload_syllabus relays that status.
C25_AiStatusRelayed ==
    (FilePassed /\ be_req.ai.exc = "" /\ be_req.ai.status # 200) =>
        /\ get_parsed_syllabus(be_req.ai).status = be_req.ai.status
        /\ get_parsed_syllabus(be_req.ai).detail = "AI service error: text"
        /\ be_pc = "responded" => be_resp.status = be_req.ai.status

\* a request of get_syllabus or sync_syllabus_to_calendar has been answered
LookupAnswered ==
    /\ be_req.handler \in {"get_syllabus", "sync"}
    /\ be_pc = "responded"

Missing == be_req.id > Len(be_store0)
Foreign == ~Missing /\ be_store0[be_req.id].user_id # be_req.user

C27_UploadWritesOnceOnSuccess ==
    be_req.handler = "upload" =>
        /\ be_store = be_store0
           \/ /\ Len(be_store) = Len(be_store0) + 1
              /\ SubSeq(be_store, 1, Len(be_store0)) = be_store0
        /\ be_store # be_store0 =>
              /\ be_req.file.is_pdf
              /\ ~be_req.file.empty
              /\ be_req.ai.exc = ""
              /\ be_req.ai.status = 200
              /\ be_pc = "responded"
        /\ (be_pc = "responded" /\ be_resp.status # 200) =>
              be_store = be_store0

C27_Witness ==
    /\ UploadWrote
    /\ be_resp.status = 200
    /\ be_n = 2
    /\ Len(be_store0) > 0


\* ======================================================================
\* GET /auth/me: look the user up in the users collection, create the
\* document when the query found none
\* ======================================================================

\* server processes that share the one Firestore collection
MaxWorkers == 2

UserDoc(u) == [user_id |-> u, last_login |-> "created"]

AuInit ==
    /\ au_users \in {<<>>, <<UserDoc("u1")>>}
    /\ au_calls \in [Requests -> [user : Callers, worker : 1..MaxWorkers,
                                  pc : {"start"}, found : {0}, status : {0}]]
    /\ IdleExcept({"au"})

\* the handler body has no await: inside one process the event loop runs it
\* to the end before it serves another call
LoopFree(c) ==
    \A d \in Requests \ {c} :
        au_calls[d].worker = au_calls[c].worker => au_calls[d].pc # "queried"

\* user_docs = list(users_collection.where("user_id", "==", ...).stream())
Me_Query(c) ==
    /\ au_calls[c].pc = "start"
    /\ LoopFree(c)
    /\ LET hits == {i \in 1..Len(au_users) :
                        au_users[i].user_id = au_calls[c].user}
           first == IF hits = {} THEN 0
                    ELSE CHOOSE i \in hits : \A j \in hits : i <= j
       IN au_calls' = [au_calls EXCEPT ![c].pc = "queried", ![c].found = first]
    /\ UNCHANGED au_users
    /\ UNCHANGED auOthers

\* if not user_docs: users_collection.add(new_user); add returns a pair, so
\* doc_ref.id raises and the call is answered 500 with the document added
Me_Create(c) ==
    /\ au_calls[c].pc = "queried"
    /\ au_calls[c].found = 0
    /\ au_users' = Append(au_users, UserDoc(au_calls[c].user))
    /\ au_calls' = [au_calls EXCEPT ![c].pc = "responded", ![c].status = 500]
    /\ UNCHANGED auOthers

\* else: update last_login of user_docs[0] and return it
Me_Update(c) ==
    /\ au_calls[c].pc = "queried"
    /\ au_calls[c].found # 0
    /\ au_users' = [au_users EXCEPT ![au_calls[c].found].last_login = "updated"]
    /\ au_calls' = [au_calls EXCEPT ![c].pc = "responded", ![c].status = 200]
    /\ UNCHANGED auOthers

AuNext ==
    \E c \in Requests :
        \/ Me_Query(c)
        \/ Me_Create(c)
        \/ Me_Update(c)

SpecAuth == AuInit /\ [][AuNext]_vars

\* C30: after any sequence of /auth/me calls, interleaved or not, the users
\* collection holds at most one document for each user_id.
C30_OneDocumentPerUser ==
    \A u \in Callers :
        Cardinality({i \in 1..Len(au_users) : au_users[i].user_id = u}) <= 1

====
